---- MODULE Spec2Model ----
(***************************************************************************)
(* State-machine model of the tracking / alerting core of AI-EYES:         *)
(*   - PersonTracker          (backend/surveillance/tracker.py)            *)
(*   - AlertManager           (backend/surveillance/alert_manager.py)      *)
(*   - authorization memory   (backend/multi_camera_surveillance.py)       *)
(* Times are whole seconds.  IoU values are exact rationals <<num, den>>   *)
(* with den > 0, compared by cross-multiplication.  Python's 0-based       *)
(* detection indices are 1-based here, and "no detection" (-1) is 0.       *)
(***************************************************************************)
EXTENDS Integers, Sequences, FiniteSets, TLC

VARIABLES
    \* ---- PersonTracker (one camera's Track Store) ----
    active_tracks,      \* set of track ids that own a per-object tracker
    track_states,       \* track id -> track state record
    next_track_id,      \* next id to hand out
    clock,              \* time.time() as read by the last update()
    confirmed_tracks,   \* map returned by the last update()
    created_ids,        \* history: ids handed out, in creation order
    call                \* history: what the last update() saw and decided

trackerVars == <<active_tracks, track_states, next_track_id, clock,
                 confirmed_tracks, created_ids, call>>

VARIABLES
    \* ---- AlertManager (surveillance/alert_manager.py), one instance ----
    last_alert_times,   \* activity type -> timestamp of the last alert let through
    alert_queue,        \* queue.Queue of alert_data
    total_alerts,       \* stats['total_alerts']
    alert_clock,        \* wall clock that stamps activities
    pc,                 \* camera thread -> where it is inside process_activity
    activity,           \* camera thread -> the activity it is processing
    stat_read,          \* camera thread -> the value read by "+= 1"
    enqueued,           \* history: every alert put on the queue, with its camera
    alert_call,         \* history: the last completed single-step call
    asked,              \* history: <<camera, type>> pairs already submitted
    alert_steps         \* history: number of calls begun and of clock steps

alertVars == <<last_alert_times, alert_queue, total_alerts, alert_clock, pc,
               activity, stat_read, enqueued, alert_call, asked, alert_steps>>

VARIABLES
    \* ---- authorization memory (multi_camera_surveillance.py) ----
    last_authorized_person, \* camera -> [names, frames_since_seen]
    frame_counters,         \* camera -> frames seen by the face section
    face_tick,              \* history: the last tick of the face section
    grace                   \* history: per camera, the run of "person, no
                            \* face" ticks since an authorized sighting

faceVars == <<last_authorized_person, frame_counters, face_tick, grace>>

VARIABLES
    \* ---- one call of point_in_polygon ----
    pip                 \* [point, polygon, called, result]

polygonVars == <<pip>>

VARIABLES
    \* ---- SuspiciousActivityAnalyzer (one camera's analyzer) ----
    zones,              \* list of DetectionZone, in the order added
    zone_intrusions,    \* <<track id, zone name>> -> time of the intrusion
    active_activities,  \* activity id -> activity
    activity_history,   \* list of the activities returned so far
    analysis,           \* history: the last analyze_frame call
    emitted,            \* history: every activity returned, with its call
    track_log           \* history: per track id, what the calls saw of it

analyzerVars == <<zones, zone_intrusions, active_activities, activity_history,
                  analysis, emitted, track_log>>

VARIABLES
    \* ---- one camera's frames through tracker and analyzer ----
    pipeline            \* history: frame rate, frames taken, moves of the person

pipelineVars == <<pipeline>>

VARIABLES
    \* ---- MultiCameraAISurveillance: the camera workers ----
    active_cameras,     \* the keys of self.active_cameras
    latest_frames,      \* the keys of self.latest_frames
    start_requests,     \* start_camera_surveillance calls, each with its position
    threads,            \* process_camera_feed threads, each with its position
    broken              \* cameras whose every read fails from now on

supervisorVars == <<active_cameras, latest_frames, start_requests, threads, broken>>

VARIABLES
    \* ---- AlertManager: the consumer thread (_process_alerts) ----
    is_running,         \* self.is_running
    alert_thread,       \* the consumer: where it is and the alert it holds
    lifecycle,          \* history: has start() been called, has stop()
    dequeued,           \* history: the alerts taken off the queue, in order
    dispatched,         \* history: every channel invoked, with its outcome
    disk_writes         \* history: every cv2.imwrite, with the thread doing it

consumerVars == <<is_running, alert_thread, lifecycle, dequeued, dispatched,
                  disk_writes>>

VARIABLES
    \* ---- MultiCameraAISurveillance: the cameras it knows ----
    camera_urls,        \* the keys of self.camera_urls
    person_trackers,    \* camera -> the PersonTracker made for it
    activity_analyzers, \* camera -> the analyzer made for it, with its zones
    discovery           \* history: the passes of _camera_discovery_loop

discoveryVars == <<camera_urls, person_trackers, activity_analyzers, discovery>>

VARIABLES
    \* ---- the analyzer as its callers reach it ----
    zone_request,       \* the last POST to /surveillance/detection_zones: data, status
    frame_call          \* the last analyze_frame(detections, tracks, t): inputs, outcome

frameVars == <<zone_request, frame_call>>

VARIABLES
    \* ---- SuspiciousActivityAnalyzer: the bags it watches ----
    stationary_objects, \* object id -> [first_seen, last_seen]
    bag_call,           \* the last analyze_frame call on a frame with bags: inputs, result
    last_sighting       \* history: object id -> its latest sighting

bagVars == <<stationary_objects, bag_call, last_sighting>>

VARIABLES
    \* ---- MultiCameraAISurveillance: the alert counter of all workers ----
    alert_count,        \* self.alert_count
    counting            \* camera -> its worker inside "self.alert_count += 1"

countVars == <<alert_count, counting>>

VARIABLES
    \* ---- AlertManager: every thread start() has made ----
    alert_threads,      \* the _process_alerts threads, in the order started
    stopping,           \* a stop() call is between "is_running = False" and its return
    life                \* history: start() and stop() calls, alerts queued while stopped

lifeVars == <<alert_threads, stopping, life>>

VARIABLES
    \* ---- the caller of PersonTracker.update() ----
    assigned            \* history: track ids whose returned snapshot the caller wrote to

snapVars == <<assigned>>

VARIABLES
    \* ---- SurveillanceManager: the results of the processed frames ----
    result_queue,       \* queue.Queue(maxsize=100), oldest first
    frames_processed,   \* stats['frames_processed']
    process_pc,         \* _process_frames: "idle" or "full" (in the except branch)
    latest_call         \* history: the last get_latest_result() call

resultVars == <<result_queue, frames_processed, process_pc, latest_call>>

\* the components other than the tracker, the AlertManager and the
\* authorization memory
restVars == <<polygonVars, analyzerVars, pipelineVars, supervisorVars, consumerVars, discoveryVars, frameVars, bagVars, countVars, lifeVars, snapVars, resultVars>>

\* what the steps of one component leave alone
othersOfPolygon ==
    <<trackerVars, alertVars, faceVars, analyzerVars, pipelineVars, supervisorVars, consumerVars, discoveryVars, frameVars, bagVars, countVars, lifeVars, snapVars, resultVars>>
othersOfAnalyzer ==
    <<trackerVars, alertVars, faceVars, polygonVars, pipelineVars, supervisorVars, consumerVars, discoveryVars, frameVars, bagVars, countVars, lifeVars, snapVars, resultVars>>
othersOfPipeline == <<alertVars, faceVars, polygonVars, supervisorVars, consumerVars, discoveryVars, frameVars, bagVars, countVars, lifeVars, snapVars, resultVars>>
othersOfConsumer ==
    <<trackerVars, faceVars, polygonVars, analyzerVars, pipelineVars, supervisorVars, discoveryVars, frameVars, bagVars, countVars, lifeVars, snapVars, resultVars>>
othersOfFrame ==
    <<trackerVars, alertVars, faceVars, polygonVars, pipelineVars, supervisorVars,
      consumerVars, discoveryVars, bagVars, countVars, lifeVars, snapVars, resultVars>>
othersOfBags ==
    <<trackerVars, alertVars, faceVars, polygonVars, pipelineVars, supervisorVars,
      consumerVars, discoveryVars, frameVars, countVars, lifeVars, snapVars, resultVars>>
othersOfCount ==
    <<trackerVars, alertVars, faceVars, polygonVars, analyzerVars, pipelineVars,
      supervisorVars, consumerVars, discoveryVars, frameVars, bagVars, lifeVars, snapVars, resultVars>>
othersOfLife ==
    <<trackerVars, faceVars, polygonVars, analyzerVars, pipelineVars, supervisorVars,
      discoveryVars, frameVars, bagVars, countVars, snapVars, resultVars>>
othersOfDiscovery ==
    <<trackerVars, alertVars, faceVars, polygonVars, analyzerVars, pipelineVars,
      consumerVars, frameVars, bagVars, countVars, lifeVars, snapVars, resultVars>>
othersOfSupervisor ==
    <<trackerVars, alertVars, faceVars, polygonVars, analyzerVars, pipelineVars, consumerVars, discoveryVars, frameVars, bagVars, countVars, lifeVars, snapVars, resultVars>>

vars == <<trackerVars, alertVars, faceVars, restVars>>

-----------------------------------------------------------------------------
(* Bounds of the model *)

\* PersonTracker(max_tracks=...): the constructor parameter (default 50),
\* instantiated small so that the cap is reached.
max_tracks == 2
\* most detections handed to one update()
MaxDets == 2
\* the clock stops advancing here
MaxClock == 7
\* most update() calls in which the detector reports any person
MaxDetFrames == 2

\* most process_activity calls begun
MaxAlertCalls == 3
\* most process_activity calls while the consumer thread is modelled
MaxSubmits == 2
\* most steps of the alert clock
MaxAlertClockSteps == 2

\* most frames counted by the face-recognition section, all cameras together
MaxFaceTicks == 13
\* most persons / faces reported in one tick
MaxPersons == 1
MaxFaces == 2
\* most zones added to one analyzer
MaxZones == 2
\* most analyze_frame calls on tracks handed in by the caller
MaxAnalyses == 2
\* track ids of the tracks handed in: 1..MaxTrackIds
MaxTrackIds == 2
\* the clock of the frames that run through tracker and analyzer stops here
MaxPipelineClock == 22
\* most moves of the person in front of the camera
MaxShifts == 1
\* most process_camera_feed threads ever started
MaxThreads == 2
\* most start_camera_surveillance calls ever made
MaxStartRequests == 2
\* most passes of the camera discovery loop
MaxPasses == 3
MaxFrameCalls == 1
MaxBagCalls == 5
\* most start() and most stop() calls on one AlertManager
MaxStarts == 2
MaxStops == 2
\* most frames one manager processes
MaxResults == 102
\* most alerts one camera worker counts
MaxIncrements == 4
\* the clock up to which one person is followed
MaxFollowClock == 14
\* point_in_polygon is tried on the points at most this far outside a zone
PointMargin == 2

(* Program constants *)
track_timeout == 5
min_track_length == 5
history_window == 10
iou_threshold == <<1, 2>>
alert_cooldown == 300
max_frames_without_face == 10
FRAME_SKIP_INTERVAL == 3
min_analysis_frames == 10
loitering_threshold == 30
loiter_radius == 50
speed_threshold == 5
history_limit == 1000

-----------------------------------------------------------------------------
(* Inputs *)

BoxA == <<0, 0, 4, 4>>
BoxB == <<1, 0, 5, 4>>      \* IoU with BoxA = 12/20
BoxH == <<0, 0, 4, 2>>      \* IoU with BoxA = 8/16, exactly the threshold;
                            \* with BoxB = 6/18
BoxF == <<8, 0, 12, 4>>     \* disjoint from the others
Boxes == {BoxA, BoxB, BoxH, BoxF}

\* person detections as the detector hands them over: bbox and confidence
\* (confidence in tenths)
DetPool == { [bbox |-> BoxA, confidence |-> 9],
             [bbox |-> BoxB, confidence |-> 8],
             [bbox |-> BoxH, confidence |-> 9],
             [bbox |-> BoxF, confidence |-> 8] }

DetectionLists == UNION { [1..n -> DetPool] : n \in 0..MaxDets }

\* seconds between two update() calls; 6 exceeds track_timeout
ClockSteps == {1, 6}

\* seconds between two update() calls while one person is followed
FollowClockSteps == {1, 4, 6}

\* what a track's cv2 tracker reports: failure, or success at the box it
\* was following
TrackerFail == <<>>
TrackerReports(bbox) == {TrackerFail, bbox}

\* camera workers; each SurveillanceManager's processing thread calls the
\* activity callback
Cameras == {"camA", "camB"}

ActivityTypes == {"loitering", "running"}

\* seconds the alert clock may advance at once: 299 stays inside the
\* cooldown, 299 + 1 reaches it exactly
AlertClockSteps == {1, 299}

\* what recognize_faces_in_frame reports for one face
FacePool == { [name |-> "owner", is_authorized |-> TRUE],
              [name |-> "Unknown", is_authorized |-> FALSE] }

FaceLists == UNION { [1..n -> FacePool] : n \in 0..MaxFaces }

\* zones a camera may be given: a restricted zone with the intrusion rule,
\* a monitored zone over it and beyond, a restricted zone without the rule
ZonePool ==
    { [name |-> "vault", zone_type |-> "restricted",
       points |-> << <<0, 0>>, <<100, 0>>, <<100, 100>>, <<0, 100>> >>,
       activity_types |-> {"zone_intrusion"}],
      [name |-> "yard", zone_type |-> "monitored",
       points |-> << <<0, 0>>, <<300, 0>>, <<300, 100>>, <<0, 100>> >>,
       activity_types |-> {"zone_intrusion", "loitering"}],
      [name |-> "lobby", zone_type |-> "restricted",
       points |-> << <<0, 0>>, <<100, 0>>, <<100, 100>>, <<0, 100>> >>,
       activity_types |-> {"loitering"}] }

\* where a handed-in track may stand: inside the vault's rectangle or
\* beyond it, inside the yard's only
TrackCenters == { <<50, 50>>, <<200, 50>> }

\* the detector's report of the person on the first frame
PersonDetection == [bbox |-> <<100, 100, 104, 104>>, confidence |-> 9]

\* frames per second the camera delivers to _process_frames
FrameRates == {3, 6}

\* the person's box 200 px further along x
ShiftBox(bbox) == <<bbox[1] + 200, bbox[2], bbox[3] + 200, bbox[4]>>

\* get_default_detection_zones: the zone start_surveillance gives a camera
default_zone ==
    [name |-> "Main Area", zone_type |-> "monitored",
     points |-> << <<50, 50>>, <<1230, 50>>, <<1230, 670>>, <<50, 670>> >>,
     activity_types |-> {"loitering", "unauthorized_person",
                         "weapon_detected", "abandoned_object"}]

AuthorizationStatuses == {"pending", "authorized", "intruder"}

AnalysisClockSteps == {1}

\* the unit square of the containment scenario and the full-frame zone of
\* tests/test_activity_detection.py
UnitSquare == << <<0, 0>>, <<10, 0>>, <<10, 10>>, <<0, 10>> >>
FullFrame == << <<0, 0>>, <<1920, 0>>, <<1920, 1080>>, <<0, 1080>> >>
RectangleZones == {UnitSquare, FullFrame}

\* coordinates tried against a side [lo, hi] of a rectangle: around both
\* ends, and all of a short side or the middle of a long one
CoordsAround(lo, hi) ==
    (lo - PointMargin .. lo + PointMargin) \cup (hi - PointMargin .. hi + PointMargin)
        \cup (IF hi - lo <= 10 THEN lo..hi ELSE {(lo + hi) \div 2})

\* the test's own points
TestPoints == { <<960, 540>>, <<100, 100>>, <<1800, 1000>>, <<2000, 2000>>, <<-100, 500>> }

PointsFor(polygon) ==
    (CoordsAround(polygon[1][1], polygon[3][1]) \X CoordsAround(polygon[1][2], polygon[3][2]))
        \cup (IF polygon = FullFrame THEN TestPoints ELSE {})

-----------------------------------------------------------------------------
(* Helpers *)

\* the values of a map or of a list
Range(f) == {f[x] : x \in DOMAIN f}

Max(a, b) == IF a >= b THEN a ELSE b
Min(a, b) == IF a <= b THEN a ELSE b

\* a > b for rationals <<num, den>> with positive denominators
RatGT(a, b) == a[1] * b[2] > b[1] * a[2]

EmptyMap == <<>>

RECURSIVE SortedIds(_)
\* dict iteration order: ids are inserted in increasing order
SortedIds(S) ==
    IF S = {} THEN <<>>
    ELSE LET m == CHOOSE x \in S : \A y \in S : x <= y
         IN <<m>> \o SortedIds(S \ {m})

Restrict(f, S) == [x \in S |-> f[x]]

-----------------------------------------------------------------------------
(* PersonTracker *)

calculate_iou(box1, box2) ==
    LET xi1 == Max(box1[1], box2[1])
        yi1 == Max(box1[2], box2[2])
        xi2 == Min(box1[3], box2[3])
        yi2 == Min(box1[4], box2[4])
        intersection == (xi2 - xi1) * (yi2 - yi1)
        area1 == (box1[3] - box1[1]) * (box1[4] - box1[2])
        area2 == (box2[3] - box2[1]) * (box2[4] - box2[2])
        union == area1 + area2 - intersection
    IN IF xi1 >= xi2 \/ yi1 >= yi2 THEN <<0, 1>>
       ELSE IF union <= 0 THEN <<0, 1>>
       ELSE <<intersection, union>>

\* variant: a detection exactly at the threshold is accepted
iou_accepts_at_threshold(iou, best_iou) ==
    ~RatGT(iou_threshold, iou) /\ RatGT(iou, best_iou)

\* the acceptance test of the inner loop (tracker.py line 161)
iou_accepts(iou, best_iou) ==
    RatGT(iou, iou_threshold) /\ RatGT(iou, best_iou)

RECURSIVE best_detection(_, _, _, _, _, _)
\* inner loop of _match_detections_to_tracks for one track
best_detection(track_bbox, detections, used_detections, det_idx, best_iou, best_idx) ==
    IF det_idx > Len(detections) THEN best_idx
    ELSE IF det_idx \in used_detections
         THEN best_detection(track_bbox, detections, used_detections,
                             det_idx + 1, best_iou, best_idx)
    ELSE LET iou == calculate_iou(track_bbox, detections[det_idx].bbox)
         IN IF iou_accepts(iou, best_iou)
            THEN best_detection(track_bbox, detections, used_detections,
                                det_idx + 1, iou, det_idx)
            ELSE best_detection(track_bbox, detections, used_detections,
                                det_idx + 1, best_iou, best_idx)

RECURSIVE match_loop(_, _, _, _)
\* outer loop of _match_detections_to_tracks
match_loop(ids, states, detections, matches) ==
    IF ids = <<>> THEN matches
    ELSE LET track_id == Head(ids)
             used_detections == {matches[t] : t \in DOMAIN matches}
             best == best_detection(states[track_id].bbox, detections,
                                    used_detections, 1, <<0, 1>>, 0)
         IN match_loop(Tail(ids), states, detections,
                       IF best >= 1 THEN matches @@ (track_id :> best)
                       ELSE matches)

match_detections_to_tracks(active, states, detections) ==
    IF active = {} \/ detections = <<>> THEN EmptyMap
    ELSE match_loop(SortedIds(DOMAIN states \cap active), states, detections, EmptyMap)

\* the sample appended to position_history
Sample(timestamp, center, bbox) ==
    [timestamp |-> timestamp, center |-> center, bbox |-> bbox]

recent_history_all(history, current_time) == history

\* "Keep only recent history (last 10 seconds)"
recent_history(history, current_time) ==
    SelectSeq(history, LAMBDA h : current_time - h.timestamp <= history_window)

\* variant: a successful tracker does not refresh last_update
advance_track_no_refresh(state, bbox, current_time) ==
    [state EXCEPT !.bbox = bbox, !.frame_count = @ + 1]

\* update(): the branch taken when the track's tracker reports success
advance_track(state, bbox, current_time) ==
    LET x == bbox[1]
        y == bbox[2]
        w == bbox[3] - bbox[1]
        h == bbox[4] - bbox[2]
        center == <<x + (w \div 2), y + (h \div 2)>>
    IN [state EXCEPT
          !.bbox = bbox,
          !.last_update = current_time,
          !.center = center,
          !.frame_count = @ + 1,
          !.position_history =
              recent_history(Append(@, Sample(current_time, center, bbox)),
                             current_time)]

\* update(), first loop: every live track asks its tracker; a failure
\* removes the track (_remove_track)
advance_trackers(states, report, current_time) ==
    LET kept == {t \in DOMAIN states : report[t] # TrackerFail}
    IN [t \in kept |-> advance_track(states[t], report[t], current_time)]

\* update(): matched tracks take the detection's confidence
apply_matches(states, matches, detections) ==
    [t \in DOMAIN states |->
        IF t \in DOMAIN matches
        THEN [states[t] EXCEPT !.confidence = detections[matches[t]].confidence]
        ELSE states[t]]

\* the state _create_new_track stores
new_track(track_id, detection, timestamp) ==
    LET b == detection.bbox
        center == <<(b[1] + b[3]) \div 2, (b[2] + b[4]) \div 2>>
    IN [track_id |-> track_id,
        bbox |-> b,
        center |-> center,
        confidence |-> detection.confidence,
        created_time |-> timestamp,
        last_update |-> timestamp,
        frame_count |-> 1,
        position_history |-> <<Sample(timestamp, center, b)>>,
        identity |-> "unknown",
        authorization_status |-> "pending"]

\* variant: the cap is tested with <=
may_create_one_more(det_idx, matched_detection_indices, n_active) ==
    det_idx \notin matched_detection_indices /\ n_active <= max_tracks

\* the guard of the creation loop (tracker.py line 234)
may_create(det_idx, matched_detection_indices, n_active) ==
    det_idx \notin matched_detection_indices /\ n_active < max_tracks

\* variant: the id is derived from the number of live tracks
fresh_track_id_by_count(next_id, active) == Cardinality(active) + 1

\* _create_new_track: track_id = self.next_track_id
fresh_track_id(next_id, active) == next_id

RECURSIVE create_loop(_, _, _, _, _, _, _)
\* update(), "Create new tracks for unmatched detections".  st carries
\* active_tracks, track_states, next_track_id; log records what happened to
\* each detection.  init_ok: the detections for which _create_tracker and
\* tracker.init succeed.
create_loop(det_idx, detections, matched_detection_indices, init_ok, timestamp, st, log) ==
    IF det_idx > Len(detections) THEN [st |-> st, log |-> log]
    ELSE LET n == Cardinality(st.active)
             track_id == fresh_track_id(st.next, st.active)
             entry == [unmatched |-> det_idx \notin matched_detection_indices,
                       size_before |-> n,
                       init_ok |-> det_idx \in init_ok,
                       created |-> FALSE,
                       track_id |-> 0]
         IN IF may_create(det_idx, matched_detection_indices, n) /\ det_idx \in init_ok
            THEN create_loop(det_idx + 1, detections, matched_detection_indices,
                             init_ok, timestamp,
                             [active |-> st.active \cup {track_id},
                              states |-> (track_id :> new_track(track_id, detections[det_idx], timestamp))
                                         @@ st.states,
                              next |-> st.next + 1],
                             Append(log, [entry EXCEPT !.created = TRUE,
                                                       !.track_id = track_id]))
            ELSE create_loop(det_idx + 1, detections, matched_detection_indices,
                             init_ok, timestamp, st, Append(log, entry))

\* history: the ids the creation loop handed out, in order
ids_created(log) ==
    LET made == SelectSeq(log, LAMBDA e : e.created)
    IN [i \in 1..Len(made) |-> made[i].track_id]

\* _cleanup_old_tracks: the ids to expire
expired_tracks(states, current_time) ==
    {t \in DOMAIN states : current_time - states[t].last_update > track_timeout}

\* variant: the filter is off by one
is_confirmed_early(state) == state.frame_count >= min_track_length - 1

\* the filter of the returned map (tracker.py line 243)
is_confirmed(state) == state.frame_count >= min_track_length

\* PersonTracker.update(frame, detections): the state after the call, the
\* returned map and the record of the call
update(dt, detections, report, init_ok) ==
    LET current_time == clock + dt
        stale == {t \in DOMAIN track_states :
                     current_time - track_states[t].last_update > track_timeout}
        failed == {t \in active_tracks : report[t] = TrackerFail}
        states1 == advance_trackers(track_states, report, current_time)
        active1 == active_tracks \ failed
        matches == match_detections_to_tracks(active1, states1, detections)
        states2 == apply_matches(states1, matches, detections)
        matched == {matches[t] : t \in DOMAIN matches}
        made == create_loop(1, detections, matched, init_ok, current_time,
                            [active |-> active1, states |-> states2,
                             next |-> next_track_id], <<>>)
        expired == expired_tracks(made.st.states, current_time)
        states4 == Restrict(made.st.states, DOMAIN made.st.states \ expired)
    IN [clock |-> current_time,
        active_tracks |-> made.st.active \ expired,
        track_states |-> states4,
        next_track_id |-> made.st.next,
        confirmed_tracks |->
            Restrict(states4, {t \in DOMAIN states4 : is_confirmed(states4[t])}),
        created_ids |-> created_ids \o ids_created(made.log),
        call |-> [det_frames |-> call.det_frames + (IF detections = <<>> THEN 0 ELSE 1),
                  detections |-> detections,
                  stale |-> stale,
                  failed |-> failed,
                  matches |-> matches,
                  before_create |-> states2,
                  after_create |-> made.st.states,
                  create_log |-> made.log]]

\* one tick of a camera worker: tracker.update(frame, persons)
TrackerUpdate ==
    \E dt \in ClockSteps, detections \in DetectionLists :
      /\ clock + dt <= MaxClock
      /\ detections # <<>> => call.det_frames < MaxDetFrames
      /\ \E report \in [active_tracks -> Boxes \cup {TrackerFail}],
            init_ok \in SUBSET (1..Len(detections)) :
           /\ \A t \in active_tracks : report[t] \in TrackerReports(track_states[t].bbox)
           /\ \E r \in {update(dt, detections, report, init_ok)} :
                /\ clock' = r.clock
                /\ active_tracks' = r.active_tracks
                /\ track_states' = r.track_states
                /\ next_track_id' = r.next_track_id
                /\ confirmed_tracks' = r.confirmed_tracks
                /\ created_ids' = r.created_ids
                /\ call' = r.call
                /\ UNCHANGED <<alertVars, faceVars, restVars>>

-----------------------------------------------------------------------------
(* AlertManager *)

\* variant: an activity exactly alert_cooldown after the last one is still
\* held back
is_in_cooldown_inclusive(times, act) ==
    /\ act.activity_type \in DOMAIN times
    /\ act.timestamp - times[act.activity_type] <= alert_cooldown

\* AlertManager._is_in_cooldown, on the last_alert_times it reads
is_in_cooldown(times, act) ==
    /\ act.activity_type \in DOMAIN times
    /\ act.timestamp - times[act.activity_type] < alert_cooldown

\* "Update last alert time"
record_alert_time(times, act) ==
    (act.activity_type :> act.timestamp) @@ times

\* AlertManager._create_alert_data
create_alert_data(act) ==
    [timestamp |-> act.timestamp,
     activity_type |-> act.activity_type,
     camera_id |-> "default"]

NoActivity == [activity_type |-> "none", timestamp |-> 0]

\* a camera's analyzer emits an activity stamped with the current time
Emit(type) == [activity_type |-> type, timestamp |-> alert_clock]

\* the wall clock advances
AlertClockTick ==
    /\ alert_steps.ticks < MaxAlertClockSteps
    /\ \E dt \in AlertClockSteps : alert_clock' = alert_clock + dt
    /\ alert_steps' = [alert_steps EXCEPT !.ticks = @ + 1]
    /\ UNCHANGED <<last_alert_times, alert_queue, total_alerts, pc, activity,
                   stat_read, enqueued, alert_call, asked>>
    /\ UNCHANGED <<trackerVars, faceVars, restVars>>

\* AlertManager.process_activity(activity, frame) run from start to end by
\* one caller with no other caller inside
ProcessActivity ==
    \E cam \in Cameras, type \in ActivityTypes :
      LET act == Emit(type)
          cooled == is_in_cooldown(last_alert_times, act)
      IN /\ alert_steps.calls < MaxAlertCalls
         /\ \A c \in Cameras : pc[c] = "idle"
         /\ IF cooled
            THEN UNCHANGED <<last_alert_times, alert_queue, total_alerts, enqueued>>
            ELSE /\ last_alert_times' = record_alert_time(last_alert_times, act)
                 /\ alert_queue' = Append(alert_queue, create_alert_data(act))
                 /\ total_alerts' = total_alerts + 1
                 /\ enqueued' = Append(enqueued,
                        [camera |-> cam, activity_type |-> type,
                         timestamp |-> act.timestamp])
         /\ alert_call' = [camera |-> cam,
                           activity |-> act,
                           first_for_camera |-> <<cam, type>> \notin asked,
                           enqueued_before |-> enqueued,
                           times_before |-> last_alert_times,
                           queue_before |-> alert_queue,
                           total_before |-> total_alerts,
                           outcome |-> IF cooled THEN "suppressed" ELSE "queued"]
         /\ asked' = asked \cup {<<cam, type>>}
         /\ alert_steps' = [alert_steps EXCEPT !.calls = @ + 1]
         /\ UNCHANGED <<alert_clock, pc, activity, stat_read>>
         /\ UNCHANGED <<trackerVars, faceVars, restVars>>

(* The same method step by step, as camera threads run it side by side:   *)
(* process_activity takes no lock.                                        *)

\* a camera thread enters process_activity with a fresh activity
Begin(cam) ==
    /\ pc[cam] = "idle"
    /\ alert_steps.calls < MaxAlertCalls
    /\ \E type \in ActivityTypes :
         /\ activity' = [activity EXCEPT ![cam] = Emit(type)]
         /\ asked' = asked \cup {<<cam, type>>}
    /\ pc' = [pc EXCEPT ![cam] = "check"]
    /\ alert_steps' = [alert_steps EXCEPT !.calls = @ + 1]
    /\ UNCHANGED <<last_alert_times, alert_queue, total_alerts, alert_clock,
                   stat_read, enqueued, alert_call>>
    /\ UNCHANGED <<trackerVars, faceVars, restVars>>

\* line 124: if self._is_in_cooldown(activity): return
CheckCooldown(cam) ==
    /\ pc[cam] = "check"
    /\ pc' = [pc EXCEPT ![cam] =
                 IF is_in_cooldown(last_alert_times, activity[cam])
                 THEN "idle" ELSE "update"]
    /\ UNCHANGED <<last_alert_times, alert_queue, total_alerts, alert_clock,
                   activity, stat_read, enqueued, alert_call, asked, alert_steps>>
    /\ UNCHANGED <<trackerVars, faceVars, restVars>>

\* line 129: self.last_alert_times[type] = activity.timestamp
UpdateLastAlert(cam) ==
    /\ pc[cam] = "update"
    /\ last_alert_times' = record_alert_time(last_alert_times, activity[cam])
    /\ pc' = [pc EXCEPT ![cam] = "put"]
    /\ UNCHANGED <<alert_queue, total_alerts, alert_clock, activity, stat_read,
                   enqueued, alert_call, asked, alert_steps>>
    /\ UNCHANGED <<trackerVars, faceVars, restVars>>

\* lines 132-135: alert_data = ...; self.alert_queue.put(alert_data)
PutAlert(cam) ==
    /\ pc[cam] = "put"
    /\ alert_queue' = Append(alert_queue, create_alert_data(activity[cam]))
    /\ enqueued' = Append(enqueued,
           [camera |-> cam, activity_type |-> activity[cam].activity_type,
            timestamp |-> activity[cam].timestamp])
    /\ pc' = [pc EXCEPT ![cam] = "stats_read"]
    /\ UNCHANGED <<last_alert_times, total_alerts, alert_clock, activity,
                   stat_read, alert_call, asked, alert_steps>>
    /\ UNCHANGED <<trackerVars, faceVars, restVars>>

\* line 138, self.stats['total_alerts'] += 1: the read
ReadTotal(cam) ==
    /\ pc[cam] = "stats_read"
    /\ stat_read' = [stat_read EXCEPT ![cam] = total_alerts]
    /\ pc' = [pc EXCEPT ![cam] = "stats_write"]
    /\ UNCHANGED <<last_alert_times, alert_queue, total_alerts, alert_clock,
                   activity, enqueued, alert_call, asked, alert_steps>>
    /\ UNCHANGED <<trackerVars, faceVars, restVars>>

\* line 138: the write back
WriteTotal(cam) ==
    /\ pc[cam] = "stats_write"
    /\ total_alerts' = stat_read[cam] + 1
    /\ pc' = [pc EXCEPT ![cam] = "idle"]
    /\ UNCHANGED <<last_alert_times, alert_queue, alert_clock, activity,
                   stat_read, enqueued, alert_call, asked, alert_steps>>
    /\ UNCHANGED <<trackerVars, faceVars, restVars>>

-----------------------------------------------------------------------------
(* AlertManager: start(), stop() and the consumer thread _process_alerts.  *)
(* init_alert_manager starts the manager once and cleanup_surveillance     *)
(* stops it once and drops it; the cameras' on_activity callbacks call     *)
(* process_activity(activity, frame) meanwhile.                            *)

NoAlert == [timestamp |-> 0, activity_type |-> "none", camera_id |-> "none",
            snapshot_path |-> "none"]

\* _handle_alert invokes the channels in this order
Channels == <<"email", "database", "websocket">>

\* the position after a channel has returned
next_stage(stage) ==
    CASE stage = "email" -> "database"
      [] stage = "database" -> "websocket"
      [] stage = "websocket" -> "loop"

\* variant: a failing channel ends the handling of the alert
after_failure_abort(stage) == "loop"

\* lines 350-352, 296-297, 303-304: each channel's exception is caught and
\* logged where it is raised
after_failure(stage) == next_stage(stage)

\* variant: the newest alert is taken first
queue_get_last(q) == [alert |-> q[Len(q)], rest |-> SubSeq(q, 1, Len(q) - 1)]

\* line 269, self.alert_queue.get(timeout=1): queue.Queue is first in,
\* first out
queue_get(q) == [alert |-> Head(q), rest |-> Tail(q)]

\* _create_alert_data with its frame: lines 175-177 save the snapshot
\* before the dictionary is built
alert_data_with_snapshot(act, has_frame) ==
    [timestamp |-> act.timestamp,
     activity_type |-> act.activity_type,
     camera_id |-> create_alert_data(act).camera_id,
     snapshot_path |-> IF has_frame THEN "saved" ELSE "none"]

\* AlertManager.start, lines 100-105
AlertStart ==
    /\ lifecycle.phase = "new"
    /\ is_running' = TRUE
    /\ alert_thread' = [pc |-> "loop", alert |-> NoAlert]
    /\ lifecycle' = [lifecycle EXCEPT !.phase = "started"]
    /\ UNCHANGED <<dequeued, dispatched, disk_writes>>
    /\ UNCHANGED <<alertVars, othersOfConsumer>>

\* AlertManager.stop, lines 107-112; the join returns after two seconds
\* whether or not the thread has ended
AlertStop ==
    /\ lifecycle.phase = "started"
    /\ is_running' = FALSE
    /\ lifecycle' = [phase |-> "stopped", queue_at_stop |-> alert_queue,
                     stage_at_stop |-> alert_thread.pc]
    /\ UNCHANGED <<alert_thread, dequeued, dispatched, disk_writes>>
    /\ UNCHANGED <<alertVars, othersOfConsumer>>

\* on_activity (surveillance_api.py 146-156) calls
\* process_activity(activity, frame), lines 114-144, in the camera's thread
process_activity_call(type, has_frame) ==
      LET act == Emit(type)
          cooled == is_in_cooldown(last_alert_times, act)
      IN /\ alert_steps.calls < MaxSubmits
         /\ IF cooled
            THEN UNCHANGED <<last_alert_times, alert_queue, total_alerts,
                             enqueued, disk_writes>>
            ELSE /\ last_alert_times' = record_alert_time(last_alert_times, act)
                 /\ disk_writes' =
                        IF has_frame
                        THEN Append(disk_writes,
                                 [by |-> "caller",
                                  alert |-> alert_data_with_snapshot(act, TRUE)])
                        ELSE disk_writes
                 /\ alert_queue' = Append(alert_queue,
                                          alert_data_with_snapshot(act, has_frame))
                 /\ total_alerts' = total_alerts + 1
                 /\ enqueued' = Append(enqueued,
                        [camera |-> "camA", activity_type |-> type,
                         timestamp |-> act.timestamp])
         /\ alert_steps' = [alert_steps EXCEPT !.calls = @ + 1]
         /\ UNCHANGED <<alert_clock, pc, activity, stat_read, alert_call, asked>>
         /\ UNCHANGED <<is_running, alert_thread, lifecycle, dequeued, dispatched>>

SubmitActivity ==
    \E type \in ActivityTypes, has_frame \in BOOLEAN :
        /\ process_activity_call(type, has_frame)
        /\ UNCHANGED othersOfConsumer

\* variant: the consumer goes on while alerts are queued
loop_test_drains(running, q) == running \/ q # <<>>

\* line 265: while self.is_running
loop_test(running, q) == running

\* line 265, and the end of the thread when the test fails
ConsumerLoop ==
    /\ alert_thread.pc = "loop"
    /\ alert_thread' = [alert_thread EXCEPT !.pc =
          IF loop_test(is_running, alert_queue) THEN "get" ELSE "done"]
    /\ UNCHANGED <<is_running, lifecycle, dequeued, dispatched, disk_writes>>
    /\ UNCHANGED <<alertVars, othersOfConsumer>>

\* lines 268-271: an alert is taken, or queue.Empty after the timeout
ConsumerGet ==
    /\ alert_thread.pc = "get"
    /\ IF alert_queue = <<>>
       THEN /\ alert_thread' = [alert_thread EXCEPT !.pc = "loop"]
            /\ UNCHANGED <<alert_queue, dequeued>>
       ELSE \E g \in {queue_get(alert_queue)} :
            /\ alert_thread' = [pc |-> Channels[1], alert |-> g.alert]
            /\ alert_queue' = g.rest
            /\ dequeued' = Append(dequeued, g.alert)
    /\ UNCHANGED <<is_running, lifecycle, dispatched, disk_writes>>
    /\ UNCHANGED <<last_alert_times, total_alerts, alert_clock, pc, activity,
                   stat_read, enqueued, alert_call, asked, alert_steps>>
    /\ UNCHANGED othersOfConsumer

\* _handle_alert, lines 288-304: one channel is invoked and returns or raises
ConsumerDispatch ==
    /\ alert_thread.pc \in {Channels[i] : i \in 1..Len(Channels)}
    /\ \E ok \in BOOLEAN :
         /\ dispatched' = Append(dispatched,
                [alert |-> alert_thread.alert, channel |-> alert_thread.pc,
                 ok |-> ok])
         /\ alert_thread' = [alert_thread EXCEPT !.pc =
                IF ok THEN next_stage(alert_thread.pc)
                ELSE after_failure(alert_thread.pc)]
    /\ UNCHANGED <<is_running, lifecycle, dequeued, disk_writes>>
    /\ UNCHANGED <<alertVars, othersOfConsumer>>

\* the steps the consumer thread takes on its own
ConsumerStep == ConsumerLoop \/ ConsumerGet \/ ConsumerDispatch

-----------------------------------------------------------------------------
(* AlertManager under any sequence of start() and stop() calls             *)
(* (alert_manager.py 100-112): start() makes a thread each time it is      *)
(* called; stop() clears is_running and joins the thread made last for at  *)
(* most two seconds.  A thread waits in get() for at most one second, so   *)
(* when the join times out every thread is inside _handle_alert or has     *)
(* ended.                                                                  *)

\* the threads that have not left _process_alerts
live_consumers == {i \in 1..Len(alert_threads) : alert_threads[i].pc # "done"}

\* the AlertManager is not running: before start(), or after stop() returned
outside_running == ~is_running /\ ~stopping

\* start(), lines 100-105
StartCall ==
    /\ ~stopping
    /\ life.starts < MaxStarts
    /\ is_running' = TRUE
    /\ alert_threads' = Append(alert_threads, [pc |-> "loop", alert |-> NoAlert])
    /\ life' = [life EXCEPT !.starts = @ + 1]
    /\ UNCHANGED <<stopping, alert_thread, lifecycle, dequeued, dispatched, disk_writes>>
    /\ UNCHANGED <<alertVars, othersOfLife>>

\* stop(), line 109: self.is_running = False
StopBegin ==
    /\ ~stopping
    /\ life.stops < MaxStops
    /\ is_running' = FALSE
    /\ stopping' = TRUE
    /\ life' = [life EXCEPT !.stops = @ + 1]
    /\ UNCHANGED <<alert_threads, alert_thread, lifecycle, dequeued, dispatched,
                   disk_writes>>
    /\ UNCHANGED <<alertVars, othersOfLife>>

\* stop(), lines 110-112: there is no thread, or the thread made last has
\* ended, or the two seconds of the join are over
StopReturn ==
    /\ stopping
    /\ IF alert_threads = <<>> THEN TRUE
       ELSE \/ alert_threads[Len(alert_threads)].pc = "done"
            \/ \A i \in 1..Len(alert_threads) :
                   alert_threads[i].pc \in {"handle", "done"}
    /\ stopping' = FALSE
    /\ UNCHANGED <<alert_threads, life, consumerVars>>
    /\ UNCHANGED <<alertVars, othersOfLife>>

\* process_activity(activity, frame) in a caller's thread, at any time
ProcessActivityAnytime ==
    \E type \in ActivityTypes, has_frame \in BOOLEAN :
        /\ process_activity_call(type, has_frame)
        /\ life' = IF outside_running /\ ~is_in_cooldown(last_alert_times, Emit(type))
                   THEN [life EXCEPT !.last_type = type,
                                     !.outside =
                            @ \cup {[activity_type |-> type, stops |-> life.stops,
                                     starts |-> life.starts]}]
                   ELSE [life EXCEPT !.last_type = type]
        /\ UNCHANGED <<alert_threads, stopping>>
        /\ UNCHANGED othersOfLife

\* line 265 in thread i, and the end of the thread when the test fails
ThreadLoop(i) ==
    /\ i <= Len(alert_threads)
    /\ alert_threads[i].pc = "loop"
    /\ alert_threads' = [alert_threads EXCEPT ![i].pc =
          IF loop_test(is_running, alert_queue) THEN "get" ELSE "done"]
    /\ UNCHANGED <<stopping, life, consumerVars>>
    /\ UNCHANGED <<alertVars, othersOfLife>>

\* lines 268-271 in thread i
ThreadGet(i) ==
    /\ i <= Len(alert_threads)
    /\ alert_threads[i].pc = "get"
    /\ IF alert_queue = <<>>
       THEN /\ alert_threads' = [alert_threads EXCEPT ![i].pc = "loop"]
            /\ UNCHANGED <<alert_queue, dequeued>>
       ELSE \E g \in {queue_get(alert_queue)} :
            /\ alert_threads' = [alert_threads EXCEPT ![i] =
                                    [pc |-> "handle", alert |-> g.alert]]
            /\ alert_queue' = g.rest
            /\ dequeued' = Append(dequeued, g.alert)
    /\ UNCHANGED <<stopping, life, is_running, alert_thread, lifecycle, dispatched,
                   disk_writes>>
    /\ UNCHANGED <<last_alert_times, total_alerts, alert_clock, pc, activity,
                   stat_read, enqueued, alert_call, asked, alert_steps>>
    /\ UNCHANGED othersOfLife

\* line 274 in thread i: _handle_alert invokes the three channels, each of
\* which returns or raises inside its own try/except
ThreadHandle(i) ==
    /\ i <= Len(alert_threads)
    /\ alert_threads[i].pc = "handle"
    /\ \E ok \in [1..Len(Channels) -> BOOLEAN] :
         dispatched' = dispatched \o
             [c \in 1..Len(Channels) |->
                 [alert |-> alert_threads[i].alert, channel |-> Channels[c],
                  ok |-> ok[c]]]
    /\ alert_threads' = [alert_threads EXCEPT ![i] = [pc |-> "loop", alert |-> NoAlert]]
    /\ UNCHANGED <<stopping, life, is_running, alert_thread, lifecycle, dequeued,
                   disk_writes>>
    /\ UNCHANGED <<alertVars, othersOfLife>>

ThreadStep(i) == ThreadLoop(i) \/ ThreadGet(i) \/ ThreadHandle(i)

\* start() as the application calls it: on a manager that has no thread
\* (init_alert_manager makes the manager and starts it once)
StartWhenIdle == live_consumers = {} /\ StartCall

-----------------------------------------------------------------------------
(* Authorization memory: the face-recognition section of process_frame_ai  *)
(* (lines 992-1173).  The section reads person_count from the detector     *)
(* and shares no state with the tracker section of the same method, so it  *)
(* is taken as a step of its own.  Confidences are in hundredths.          *)

\* lines 1019-1029: the face_results entry built for one verdict
face_result(v) ==
    [person_name |-> v.name,
     confidence |-> IF v.is_authorized THEN 100 ELSE 50,
     authorization_status |-> IF v.is_authorized THEN "authorized" ELSE "intruder"]

\* variant: intruders raise no alert while authorized faces are in the frame
alert_on_intruders_alone(intruder_faces, authorized_faces) ==
    Len(intruder_faces) > 0 /\ Len(authorized_faces) = 0

\* line 1050: "ALWAYS alert for intruders, even if authorized persons are present"
alert_on_intruders(intruder_faces, authorized_faces) ==
    Len(intruder_faces) > 0

\* variant: the grace period ends one frame earlier
within_grace_strict(frames_since_seen) ==
    frames_since_seen < max_frames_without_face

\* line 1139
within_grace(frames_since_seen) ==
    frames_since_seen <= max_frames_without_face

\* lines 1001-1006
run_face_recognition(person_count, counter) ==
    person_count > 0 \/ counter % FRAME_SKIP_INTERVAL = 0

\* lines 1106-1128: intruder faces only.  The loop stops at the first
\* intruder it takes for the remembered person.
intruders_only(mem, cam, intruder_faces) ==
    LET likely_same_person ==
            /\ cam \in DOMAIN mem
            /\ \E i \in 1..Len(intruder_faces) :
                   intruder_faces[i].confidence <= 7000
            /\ mem[cam].frames_since_seen <= 3
    IN IF likely_same_person
       THEN [mem EXCEPT ![cam].frames_since_seen = @ + 1]
       ELSE Restrict(mem, DOMAIN mem \ {cam})

\* variant: a person without a face is reported when no memory is held
person_without_face_unremembered(mem, cam) ==
    IF cam \in DOMAIN mem
    THEN LET seen == mem[cam].frames_since_seen + 1
         IN IF within_grace(seen)
            THEN [mem |-> [mem EXCEPT ![cam].frames_since_seen = seen],
                  alerts |-> <<>>]
            ELSE [mem |-> Restrict(mem, DOMAIN mem \ {cam}),
                  alerts |-> <<"hidden_face">>]
    ELSE [mem |-> mem, alerts |-> <<"hidden_face">>]

\* lines 1129-1170: a person but no face.  Returns the memory and the
\* send_intruder_alert calls made.
person_without_face(mem, cam) ==
    IF cam \in DOMAIN mem
    THEN LET seen == mem[cam].frames_since_seen + 1
         IN IF within_grace(seen)
            THEN [mem |-> [mem EXCEPT ![cam].frames_since_seen = seen],
                  alerts |-> <<>>]
            ELSE [mem |-> Restrict(mem, DOMAIN mem \ {cam}),
                  alerts |-> <<"hidden_face">>]
    ELSE [mem |-> mem, alerts |-> <<>>]

\* lines 1038-1170, once face recognition has run
face_decision(mem, cam, person_count, verdicts) ==
    LET face_results == [i \in 1..Len(verdicts) |-> face_result(verdicts[i])]
        authorized == SelectSeq(face_results,
                          LAMBDA f : f.authorization_status = "authorized")
        authorized_faces == [i \in 1..Len(authorized) |-> authorized[i].person_name]
        intruder_faces == SelectSeq(face_results,
                              LAMBDA f : f.authorization_status = "intruder")
        first == IF alert_on_intruders(intruder_faces, authorized_faces)
                 THEN <<"unknown">> ELSE <<>>
    IN IF Len(authorized_faces) > 0
       THEN [mem |-> (cam :> [names |-> authorized_faces, frames_since_seen |-> 0]) @@ mem,
             alerts |-> first]
       ELSE IF Len(intruder_faces) > 0
       THEN [mem |-> intruders_only(mem, cam, intruder_faces), alerts |-> first]
       ELSE IF person_count > 0
       THEN LET r == person_without_face(mem, cam)
            IN [mem |-> r.mem, alerts |-> first \o r.alerts]
       ELSE [mem |-> mem, alerts |-> first]

\* history: the run of consecutive "person detected, no face resolved"
\* ticks that follows a tick recording an authorized face
next_grace(g, ran, n_authorized, n_intruder, person_count, n_alerts) ==
    IF ran /\ n_authorized > 0 THEN [len |-> 0, alerts |-> 0]
    ELSE IF ran /\ n_intruder = 0 /\ person_count > 0 /\ g.len >= 0
    THEN [len |-> g.len + 1, alerts |-> g.alerts + n_alerts]
    ELSE [len |-> -1, alerts |-> 0]

\* frames counted so far over all cameras (sum of frame_counters)
RECURSIVE frames_counted(_)
frames_counted(counters) ==
    IF DOMAIN counters = {} THEN 0
    ELSE LET c == CHOOSE x \in DOMAIN counters : TRUE
         IN counters[c] + frames_counted(Restrict(counters, DOMAIN counters \ {c}))

\* one processed frame of one camera reaches the face section.  enabled:
\* ai_mode includes face recognition and the recognizer is trained.
FaceRecognitionTick ==
    \E cam \in Cameras, enabled \in BOOLEAN, person_count \in 0..MaxPersons,
       verdicts \in FaceLists :
      LET counter == frame_counters[cam] + 1
          ran == enabled /\ run_face_recognition(person_count, counter)
      IN /\ enabled => frames_counted(frame_counters) < MaxFaceTicks
         /\ (~ran => verdicts = <<>>)
         /\ \E r \in {IF ran
                      THEN face_decision(last_authorized_person, cam, person_count, verdicts)
                      ELSE [mem |-> last_authorized_person, alerts |-> <<>>]} :
              LET n_authorized == Cardinality({i \in 1..Len(verdicts) : verdicts[i].is_authorized})
                  n_intruder == Len(verdicts) - n_authorized
              IN /\ last_authorized_person' = r.mem
                 /\ frame_counters' = IF enabled
                                      THEN [frame_counters EXCEPT ![cam] = counter]
                                      ELSE frame_counters
                 /\ face_tick' = [camera |-> cam, ran |-> ran,
                                  person_count |-> person_count,
                                  n_authorized |-> n_authorized,
                                  n_intruder |-> n_intruder,
                                  had_memory |-> cam \in DOMAIN last_authorized_person,
                                  alerts |-> r.alerts]
                 /\ grace' = [grace EXCEPT ![cam] =
                                 next_grace(@, ran, n_authorized, n_intruder,
                                            person_count, Len(r.alerts))]
         /\ UNCHANGED <<trackerVars, alertVars, restVars>>

-----------------------------------------------------------------------------
(* SuspiciousActivityAnalyzer.point_in_polygon: ray casting.  xinters is a  *)
(* quotient of integers; "x <= xinters" is decided exactly by multiplying *)
(* out the divisor, with its sign.                                         *)

\* variant: the lower end of an edge counts as crossed
edge_toggles_closed(x, y, p1, p2) ==
    /\ y >= Min(p1[2], p2[2])
    /\ y <= Max(p1[2], p2[2])
    /\ x <= Max(p1[1], p2[1])
    /\ p1[2] # p2[2]
    /\ \/ p1[1] = p2[1]
       \/ LET den == p2[2] - p1[2]
              num == (y - p1[2]) * (p2[1] - p1[1])
          IN IF den > 0 THEN (x - p1[1]) * den <= num
                        ELSE (x - p1[1]) * den >= num

\* lines 131-137, for the edge p1 -> p2: does the edge toggle "inside"?
edge_toggles(x, y, p1, p2) ==
    /\ y > Min(p1[2], p2[2])
    /\ y <= Max(p1[2], p2[2])
    /\ x <= Max(p1[1], p2[1])
    /\ \/ p1[1] = p2[1]
       \/ LET den == p2[2] - p1[2]
              num == (y - p1[2]) * (p2[1] - p1[1])
          IN IF den > 0 THEN (x - p1[1]) * den <= num
                        ELSE (x - p1[1]) * den >= num

RECURSIVE pip_loop(_, _, _, _, _)
\* the loop "for i in range(n + 1)", from index i on
pip_loop(point, polygon, i, p1, inside) ==
    LET n == Len(polygon)
    IN IF i > n THEN inside
       ELSE LET p2 == polygon[(i % n) + 1]
            IN pip_loop(point, polygon, i + 1, p2,
                        IF edge_toggles(point[1], point[2], p1, p2)
                        THEN ~inside ELSE inside)

point_in_polygon(point, polygon) ==
    pip_loop(point, polygon, 0, polygon[1], FALSE)

\* a caller asks whether a point lies in a rectangular zone
PointInPolygon ==
    \E polygon \in RectangleZones :
      \E point \in PointsFor(polygon) :
        /\ pip' = [point |-> point, polygon |-> polygon, called |-> TRUE,
                   result |-> point_in_polygon(point, polygon)]
    /\ UNCHANGED othersOfPolygon

-----------------------------------------------------------------------------
(* SuspiciousActivityAnalyzer: the rules that analyze_frame applies to     *)
(* each track.  An activity keeps the fields the rules and the callers     *)
(* read; description, confidence and evidence are left out.                *)

NoZone == <<>>

\* variant: the zone added last among those that contain the point
RECURSIVE zone_from_last(_, _, _)
zone_from_last(zs, i, point) ==
    IF i > Len(zs) THEN NoZone
    ELSE LET later == zone_from_last(zs, i + 1, point)
         IN IF later # NoZone THEN later
            ELSE IF point_in_polygon(point, zs[i].points) THEN zs[i]
            ELSE NoZone

RECURSIVE zone_from(_, _, _)
zone_from(zs, i, point) ==
    IF i > Len(zs) THEN NoZone
    ELSE IF point_in_polygon(point, zs[i].points) THEN zs[i]
    ELSE zone_from(zs, i + 1, point)

\* the first zone, in the order added, that contains the point
get_zone_for_point(zs, point) == zone_from(zs, 1, point)

zone_name_of(zone) == IF zone = NoZone THEN "unknown_area" ELSE zone.name

SuspiciousActivity(type, level, track_id, timestamp, location, zone_name) ==
    [activity_type |-> type, threat_level |-> level, track_id |-> track_id,
     timestamp |-> timestamp, location |-> location, zone_name |-> zone_name]

Abs(a) == IF a >= 0 THEN a ELSE -a

\* (pos[0] - start[0])**2 + (pos[1] - start[1])**2
distance_sq(a, b) == (a[1] - b[1]) * (a[1] - b[1]) + (a[2] - b[2]) * (a[2] - b[2])

\* np.sqrt of distance_sq: exact along an axis and for whole roots, the
\* whole part of the root otherwise
distance(a, b) ==
    LET dx == Abs(a[1] - b[1])
        dy == Abs(a[2] - b[2])
    IN IF dy = 0 THEN dx
       ELSE IF dx = 0 THEN dy
       ELSE CHOOSE r \in Max(dx, dy)..(dx + dy) :
                r * r <= distance_sq(a, b) /\ distance_sq(a, b) < (r + 1) * (r + 1)

\* the samples of the trailing loitering_threshold seconds (lines 220-221)
loiter_window(history, current_time) ==
    SelectSeq(history, LAMBDA h : current_time - h.timestamp <= loitering_threshold)

\* line 238: "Approximate frame rate"
enough_samples(recent_positions, current_time) ==
    Len(recent_positions) >= loitering_threshold * 2

\* lines 226-236: every later sample within loiter_radius of the first
stays_in_radius(recent_positions) ==
    \A i \in 2..Len(recent_positions) :
        distance_sq(recent_positions[i].center, recent_positions[1].center)
            <= loiter_radius * loiter_radius

\* detect_loitering: the activities it returns (none or one)
detect_loitering(zs, track_state, current_time) ==
    LET zone == get_zone_for_point(zs, track_state.center)
        recent_positions == loiter_window(track_state.position_history, current_time)
    IN IF zone = NoZone \/ "loitering" \notin zone.activity_types THEN <<>>
       ELSE IF Len(recent_positions) < 2 THEN <<>>
       ELSE IF stays_in_radius(recent_positions)
                /\ enough_samples(recent_positions, current_time)
       THEN <<SuspiciousActivity("loitering", "medium", track_state.track_id,
                                 current_time, track_state.center, zone.name)>>
       ELSE <<>>

\* variant: every intrusion by a person not authorized is rated high
intrusion_threat_level_high(auth_status) == "high"

\* line 285
intrusion_threat_level(auth_status) ==
    IF auth_status = "intruder" THEN "high" ELSE "medium"

\* variant: an intrusion is new on every tick
is_new_intrusion_always(intrusions, intrusion_key) == TRUE

\* line 282
is_new_intrusion(intrusions, intrusion_key) ==
    intrusion_key \notin DOMAIN intrusions

\* detect_zone_intrusion: the activities it returns and zone_intrusions
\* after the call
detect_zone_intrusion(zs, intrusions, track_state, current_time) ==
    LET zone == get_zone_for_point(zs, track_state.center)
        auth_status == track_state.authorization_status
        quiet == [activities |-> <<>>, zone_intrusions |-> intrusions]
    IN IF zone = NoZone THEN quiet
       ELSE IF zone.zone_type # "restricted" THEN quiet
       ELSE IF "zone_intrusion" \notin zone.activity_types THEN quiet
       ELSE IF auth_status = "authorized" THEN quiet
       ELSE LET intrusion_key == <<track_state.track_id, zone.name>>
            IN IF is_new_intrusion(intrusions, intrusion_key)
               THEN [activities |->
                        <<SuspiciousActivity("zone_intrusion",
                              intrusion_threat_level(auth_status),
                              track_state.track_id, current_time,
                              track_state.center, zone.name)>>,
                     zone_intrusions |-> (intrusion_key :> current_time) @@ intrusions]
               ELSE quiet

\* f"unauthorized_{track_id}"
unauthorized_id(track_id) == <<"unauthorized", track_id>>

\* variant: a track is reported again on every tick
already_reported_never(actives, activity_id) == FALSE

\* line 323
already_reported(actives, activity_id) == activity_id \in DOMAIN actives

\* detect_unauthorized_person: the activities it returns and
\* active_activities after the call
detect_unauthorized_person(zs, actives, track_state, current_time) ==
    LET activity_id == unauthorized_id(track_state.track_id)
        quiet == [activities |-> <<>>, active_activities |-> actives]
    IN IF track_state.authorization_status # "intruder" THEN quiet
       ELSE IF already_reported(actives, activity_id) THEN quiet
       ELSE LET zone == get_zone_for_point(zs, track_state.center)
                act == SuspiciousActivity("unauthorized_person", "high",
                           track_state.track_id, current_time,
                           track_state.center, zone_name_of(zone))
            IN [activities |-> <<act>>,
                active_activities |-> (activity_id :> act) @@ actives]

\* calculate_movement_speed, as the pair <<total_distance, total_time>>
\* over the last 5 positions
movement_totals(track_state) ==
    LET history == track_state.position_history
        n == Len(history)
        recent == SubSeq(history, Max(1, n - 4), n)
        Total[i \in 1..Len(recent)] ==
            IF i = 1 THEN <<0, 0>>
            ELSE <<Total[i - 1][1] + distance(recent[i].center, recent[i - 1].center),
                   Total[i - 1][2] + recent[i].timestamp - recent[i - 1].timestamp>>
    IN IF n < 2 THEN <<0, 0>> ELSE Total[Len(recent)]

\* detect_running: speed = total_distance / total_time > speed_threshold
detect_running(zs, track_state, current_time) ==
    LET totals == movement_totals(track_state)
    IN IF totals[2] > 0 /\ totals[1] > speed_threshold * totals[2]
       THEN <<SuspiciousActivity("running", "low", track_state.track_id,
                  current_time, track_state.center,
                  zone_name_of(get_zone_for_point(zs, track_state.center)))>>
       ELSE <<>>

\* line 524: "Skip tracks without enough history"
has_enough_history(track_state) ==
    track_state.frame_count >= min_analysis_frames

RECURSIVE analyze_tracks(_, _, _, _, _)
\* analyze_frame, the loop over tracks.items(); st carries the activities
\* collected, zone_intrusions and active_activities
analyze_tracks(ids, tracks, zs, st, current_time) ==
    IF ids = <<>> THEN st
    ELSE LET track_state == tracks[Head(ids)]
         IN IF ~has_enough_history(track_state)
            THEN analyze_tracks(Tail(ids), tracks, zs, st, current_time)
            ELSE CHOOSE next \in
                   { analyze_tracks(Tail(ids), tracks, zs,
                         [activities |-> st.activities \o loitering
                                             \o intrusion.activities
                                             \o unauthorized.activities \o running,
                          zone_intrusions |-> intrusion.zone_intrusions,
                          active_activities |-> unauthorized.active_activities],
                         current_time) :
                       loitering \in {detect_loitering(zs, track_state, current_time)},
                       intrusion \in {detect_zone_intrusion(zs, st.zone_intrusions,
                                                            track_state, current_time)},
                       unauthorized \in {detect_unauthorized_person(zs, st.active_activities,
                                                                    track_state, current_time)},
                       running \in {detect_running(zs, track_state, current_time)} } : TRUE

\* "Clean up old activities from history (keep last 1000)"
trim_history(history) ==
    IF Len(history) > history_limit
    THEN SubSeq(history, Len(history) - history_limit + 1, Len(history))
    ELSE history

\* analyze_frame(detections, tracks, current_time) on a frame whose
\* detections hold no weapon and no bag: the returned list and the
\* analyzer's state after the call
analyze_frame(tracks, current_time) ==
    LET st == analyze_tracks(SortedIds(DOMAIN tracks), tracks, zones,
                  [activities |-> <<>>, zone_intrusions |-> zone_intrusions,
                   active_activities |-> active_activities], current_time)
    IN [activities |-> st.activities,
        zone_intrusions |-> st.zone_intrusions,
        active_activities |-> st.active_activities,
        activity_history |-> trim_history(activity_history \o st.activities)]

\* history: what a call has seen of track t
next_track_log(log, tracks, t, n) ==
    IF t \notin DOMAIN tracks THEN log
    ELSE LET track_state == tracks[t]
             seen == has_enough_history(track_state)
             intruder == seen /\ track_state.authorization_status = "intruder"
         IN [offered |-> TRUE,
             first_analysed |-> IF log.first_analysed = 0 /\ seen THEN n
                                ELSE log.first_analysed,
             first_status |-> IF log.first_analysed = 0 /\ seen
                              THEN track_state.authorization_status
                              ELSE log.first_status,
             first_zone |-> IF log.first_analysed = 0 /\ seen
                            THEN zone_name_of(get_zone_for_point(zones, track_state.center))
                            ELSE log.first_zone,
             first_zones |-> IF log.first_analysed = 0 /\ seen
                             THEN Len(zones) ELSE log.first_zones,
             first_intruder |-> IF log.first_intruder = 0 /\ intruder THEN n
                                ELSE log.first_intruder]

\* one analyze_frame call with its history: the values of analyzerVars
\* after the call, r being what analyze_frame returned and left
analysis_step(r, tracks, current_time) ==
    LET n == analysis.n + 1
    IN [zone_intrusions |-> r.zone_intrusions,
        active_activities |-> r.active_activities,
        activity_history |-> r.activity_history,
        analysis |-> [n |-> n, time |-> current_time, tracks |-> tracks,
                      activities |-> r.activities],
        emitted |-> emitted \o [i \in 1..Len(r.activities) |->
                                   [call |-> n, activity |-> r.activities[i]]],
        track_log |-> [t \in DOMAIN track_log |->
                          next_track_log(track_log[t], tracks, t, n)]]

\* add_detection_zone
AddDetectionZone ==
    \E zone \in ZonePool :
        /\ Len(zones) < MaxZones
        /\ \A i \in 1..Len(zones) : zones[i].name # zone.name
        /\ zones' = Append(zones, zone)
        /\ UNCHANGED <<zone_intrusions, active_activities, activity_history,
                       analysis, emitted, track_log>>
        /\ UNCHANGED othersOfAnalyzer

\* a track as the caller hands it in: the tracker's snapshot with the
\* status the face recognition of that tick gave it
offered_track(t, frame_count, center, status, current_time) ==
    [track_id |-> t, center |-> center, frame_count |-> frame_count,
     authorization_status |-> status, identity |-> "unknown",
     position_history |-> <<Sample(current_time, center,
                                   <<center[1] - 2, center[2] - 2,
                                     center[1] + 2, center[2] + 2>>)>>]

\* the track ids a caller may hand in next: a track once dropped does
\* not come back
OfferedIds ==
    {S \in SUBSET (1..MaxTrackIds) :
        \A t \in S : track_log[t].offered => t \in DOMAIN analysis.tracks}

\* the frame counts it may have: a frame count does not fall
OfferedFrameCounts(t) ==
    IF track_log[t].first_analysed > 0
    THEN {min_analysis_frames}
    ELSE {min_analysis_frames - 1, min_analysis_frames}

\* analyze_frame(detections, tracks, timestamp) as called once per frame
AnalyzeFrame ==
    /\ analysis.n < MaxAnalyses
    /\ \E dt \in AnalysisClockSteps, S \in OfferedIds :
       \E frame_counts \in [S -> {min_analysis_frames - 1, min_analysis_frames}],
          centers \in [S -> TrackCenters],
          statuses \in [S -> AuthorizationStatuses] :
        /\ \A t \in S : frame_counts[t] \in OfferedFrameCounts(t)
        /\ \E tracks \in {[t \in S |-> offered_track(t, frame_counts[t], centers[t],
                                                     statuses[t], analysis.time + dt)]} :
           \E a \in {analyze_frame(tracks, analysis.time + dt)} :
           \E r \in {analysis_step(a, tracks, analysis.time + dt)} :
             /\ zone_intrusions' = r.zone_intrusions
             /\ active_activities' = r.active_activities
             /\ activity_history' = r.activity_history
             /\ analysis' = r.analysis
             /\ emitted' = r.emitted
             /\ track_log' = r.track_log
        /\ UNCHANGED zones
        /\ UNCHANGED othersOfAnalyzer

\* the position_history of a track that has stood at center for the
\* tracker's whole window, sampled rate times a second
standing_history(center, current_time, rate) ==
    [i \in 1..(rate * history_window) |->
        Sample(current_time - ((rate * history_window - i) \div rate), center,
               <<center[1] - 2, center[2] - 2, center[1] + 2, center[2] + 2>>)]

\* analyze_frame on a frame with one track that has been standing still
AnalyzeStandingTrack ==
    /\ analysis.n < MaxAnalyses
    /\ \E t \in 1..MaxTrackIds, center \in TrackCenters,
          status \in AuthorizationStatuses, rate \in FrameRates :
       \E dt \in AnalysisClockSteps :
       \E tracks \in {t :> [track_id |-> t, center |-> center,
                            frame_count |-> rate * history_window,
                            authorization_status |-> status, identity |-> "unknown",
                            position_history |->
                                standing_history(center, analysis.time + dt, rate)]} :
       \E a \in {analyze_frame(tracks, analysis.time + dt)} :
       \E r \in {analysis_step(a, tracks, analysis.time + dt)} :
         /\ zone_intrusions' = r.zone_intrusions
         /\ active_activities' = r.active_activities
         /\ activity_history' = r.activity_history
         /\ analysis' = r.analysis
         /\ emitted' = r.emitted
         /\ track_log' = r.track_log
    /\ UNCHANGED zones
    /\ UNCHANGED othersOfAnalyzer

-----------------------------------------------------------------------------
(* The analyzer as its callers reach it: zones posted through the API        *)
(* (app/routes/surveillance_api.py, manage_detection_zones) and frames whose *)
(* detections hold weapons (activity_analyzer.py, detect_weapon).            *)

\* the values of the enum ActivityType (activity_analyzer.py lines 17-26)
ActivityTypeValues ==
    {"loitering", "zone_intrusion", "abandoned_object", "weapon_detected",
     "unauthorized_person", "crowd_formation", "running", "fighting"}

\* polygons a client may post: none, one and two vertices, a
\* self-intersecting quadrilateral, a rectangle (two horizontal edges)
Bowtie == << <<0, 0>>, <<100, 100>>, <<100, 0>>, <<0, 100>> >>
PostedPolygons ==
    { <<>>, << <<50, 50>> >>, << <<0, 0>>, <<100, 100>> >>, Bowtie,
      << <<0, 0>>, <<100, 0>>, <<100, 100>>, <<0, 100>> >> }

PostedActivityLists ==
    { <<"loitering", "unauthorized_person">>, <<"teleporting">>,
      <<"zone_intrusion", "teleporting">> }

NoRequest == [name |-> "none"]

\* request.json of the POSTs tried: whole ones and one without "points"
ZoneRequests ==
    { [name |-> "posted", type |-> "restricted", points |-> p, activity_types |-> a] :
          p \in PostedPolygons, a \in PostedActivityLists }
    \cup { [name |-> "posted", type |-> "restricted",
            activity_types |-> <<"loitering">>] }

required_fields == {"name", "type", "points", "activity_types"}

DetectionZone(name, points, zone_type, activity_types) ==
    [name |-> name, zone_type |-> zone_type, points |-> points,
     activity_types |-> activity_types]

\* add_detection_zone: self.zones.append(zone)
add_detection_zone(zs, zone) == Append(zs, zone)

\* manage_detection_zones, the POST branch (lines 289-320): the status
\* returned and the analyzer's zone list after it
manage_detection_zones(data, zs) ==
    IF ~(required_fields \subseteq DOMAIN data)
    THEN [status |-> 400, zones |-> zs]
    ELSE IF \E i \in 1..Len(data.activity_types) :
                data.activity_types[i] \notin ActivityTypeValues
    THEN [status |-> 400, zones |-> zs]
    ELSE [status |-> 200,
          zones |-> add_detection_zone(zs,
                        DetectionZone(data.name, data.points, data.type,
                                      Range(data.activity_types)))]

\* one POST to /surveillance/detection_zones/<camera_id> of a camera
\* under surveillance
PostDetectionZone ==
    \E data \in ZoneRequests :
        /\ Len(zones) < MaxZones
        /\ \E r \in {manage_detection_zones(data, zones)} :
            /\ zones' = r.zones
            /\ zone_request' = [data |-> data, status |-> r.status]
        /\ UNCHANGED <<zone_intrusions, active_activities, activity_history,
                       analysis, emitted, track_log, frame_call>>
        /\ UNCHANGED othersOfFrame

RECURSIVE lookup_raises_from(_, _, _)
\* get_zone_for_point over zones[i..]: does it reach a polygon on which
\* point_in_polygon raises (line 128, polygon[0] of an empty list) before
\* a zone that holds the point?
lookup_raises_from(zs, i, point) ==
    IF i > Len(zs) THEN FALSE
    ELSE IF Len(zs[i].points) = 0 THEN TRUE
    ELSE IF point_in_polygon(point, zs[i].points) THEN FALSE
    ELSE lookup_raises_from(zs, i + 1, point)

get_zone_for_point_raises(zs, point) == lookup_raises_from(zs, 1, point)

\* "baseball bat, knife, scissors" (line 359)
weapon_classes == {34, 43, 76}
\* "Within 100 pixels" (line 377)
weapon_reach == 100

box_center(bbox) == <<(bbox[1] + bbox[3]) \div 2, (bbox[2] + bbox[4]) \div 2>>

\* the square of the distance of lines 374-375
distance2(a, b) == (a[1] - b[1]) * (a[1] - b[1]) + (a[2] - b[2]) * (a[2] - b[2])

within_reach_always(d2) == TRUE

\* "distance < 100"
within_reach(d2) == d2 < weapon_reach * weapon_reach

NoTrack == [track_id |-> 0, d2 |-> 0]

RECURSIVE closest_from(_, _, _, _)
\* lines 372-379, the loop over tracks.items(): best is
\* (closest_track_id, min_distance), track_id 0 standing for None
closest_from(ids, tracks, weapon_center, best) ==
    IF ids = <<>> THEN best
    ELSE LET d2 == distance2(weapon_center, tracks[Head(ids)].center)
         IN closest_from(Tail(ids), tracks, weapon_center,
                IF (best.track_id = 0 \/ d2 < best.d2) /\ within_reach(d2)
                THEN [track_id |-> Head(ids), d2 |-> d2]
                ELSE best)

closest_track(tracks, weapon_center) ==
    closest_from(SortedIds(DOMAIN tracks), tracks, weapon_center, NoTrack)

RECURSIVE detect_weapon_from(_, _, _, _, _)
\* detect_weapon, the loop over the weapon detections: the activities it
\* has collected, or that a zone lookup raised
detect_weapon_from(weapon_detections, tracks, zs, current_time, found) ==
    IF weapon_detections = <<>> THEN [raised |-> FALSE, activities |-> found]
    ELSE LET weapon_center == box_center(Head(weapon_detections).bbox)
             closest == closest_track(tracks, weapon_center)
         IN IF closest.track_id = 0
            THEN detect_weapon_from(Tail(weapon_detections), tracks, zs,
                                    current_time, found)
            ELSE IF get_zone_for_point_raises(zs, weapon_center)
            THEN [raised |-> TRUE, activities |-> found]
            ELSE detect_weapon_from(Tail(weapon_detections), tracks, zs, current_time,
                     Append(found,
                         SuspiciousActivity("weapon_detected", "critical",
                             closest.track_id, current_time, weapon_center,
                             zone_name_of(get_zone_for_point(zs, weapon_center)))))

detect_weapon(detections, tracks, zs, current_time) ==
    detect_weapon_from(SelectSeq(detections, LAMBDA det : det.class_id \in weapon_classes),
                       tracks, zs, current_time, <<>>)

RECURSIVE ids_until_raise(_, _, _)
\* the tracks the loop of analyze_frame gets through: all of them, or
\* those before the first analysed track whose zone lookup raises
ids_until_raise(ids, tracks, zs) ==
    IF ids = <<>> THEN <<>>
    ELSE IF /\ has_enough_history(tracks[Head(ids)])
            /\ get_zone_for_point_raises(zs, tracks[Head(ids)].center)
    THEN <<>>
    ELSE <<Head(ids)>> \o ids_until_raise(Tail(ids), tracks, zs)

\* analyze_frame(detections, tracks, current_time) on a frame without bag
\* detections: whether it returned or raised, the list it returned and the
\* analyzer's state it left (nothing in analyze_frame catches an exception,
\* so state written before the raise stays and the history is not appended)
analyze_frame_call(detections, tracks, current_time) ==
    LET ids == SortedIds(DOMAIN tracks)
        done == ids_until_raise(ids, tracks, zones)
        st == analyze_tracks(done, tracks, zones,
                  [activities |-> <<>>, zone_intrusions |-> zone_intrusions,
                   active_activities |-> active_activities], current_time)
        weapons == IF done = ids
                   THEN detect_weapon(detections, tracks, zones, current_time)
                   ELSE [raised |-> TRUE, activities |-> <<>>]
        raised == done # ids \/ weapons.raised
        activities == st.activities \o weapons.activities
    IN [outcome |-> IF raised THEN "IndexError" ELSE "returned",
        activities |-> IF raised THEN <<>> ELSE activities,
        zone_intrusions |-> st.zone_intrusions,
        active_activities |-> st.active_activities,
        activity_history |-> IF raised THEN activity_history
                             ELSE trim_history(activity_history \o activities)]

\* what the detector reports on a frame: a knife at (50, 50), a baseball
\* bat at (600, 400), a person
Knife == [class_id |-> 43, bbox |-> <<40, 40, 61, 61>>]
Bat == [class_id |-> 34, bbox |-> <<590, 390, 610, 410>>]
Person == [class_id |-> 0, bbox |-> <<30, 20, 70, 80>>]
WeaponFrames ==
    { <<>>, <<Knife>>, <<Person>>, <<Knife, Bat>>, <<Person, Knife>>, <<Knife, Knife>> }

\* track centers 0, 99, 99, 100 and 150 px from the knife
WeaponTrackCenters ==
    { <<50, 50>>, <<50, 149>>, <<149, 50>>, <<110, 130>>, <<200, 50>> }

\* one analyze_frame call of the caller, with the tracks the tracker
\* reports (confirmed ones, frame_count >= min_track_length)
AnalyzeFrameCall(Frames, Centers, Ids) ==
    /\ frame_call.n < MaxFrameCalls
    /\ \E detections \in Frames, S \in SUBSET Ids :
       \E frame_counts \in [S -> {min_track_length, min_analysis_frames}],
          centers \in [S -> Centers] :
       \E tracks \in {[t \in S |-> offered_track(t, frame_counts[t], centers[t],
                                                 "intruder", analysis.time + 1)]} :
       \E r \in {analyze_frame_call(detections, tracks, analysis.time + 1)} :
            /\ zone_intrusions' = r.zone_intrusions
            /\ active_activities' = r.active_activities
            /\ activity_history' = r.activity_history
            /\ frame_call' = [n |-> frame_call.n + 1, outcome |-> r.outcome,
                              detections |-> detections, tracks |-> tracks,
                              activities |-> r.activities]
    /\ UNCHANGED <<zones, analysis, emitted, track_log, zone_request>>
    /\ UNCHANGED othersOfFrame

-----------------------------------------------------------------------------
(* PersonTracker.update() while one person is followed for longer than the *)
(* history window: the detector reports the person on a frame with an empty *)
(* store, the per-object tracker follows or loses the person afterwards.    *)

FollowUpdate ==
    \E dt \in FollowClockSteps :
      LET detections == IF active_tracks = {} THEN <<PersonDetection>> ELSE <<>>
      IN /\ clock + dt <= MaxFollowClock
         /\ \E report \in [active_tracks -> {PersonDetection.bbox, TrackerFail}] :
            \E r \in {update(dt, detections, report, {1})} :
                /\ clock' = r.clock
                /\ active_tracks' = r.active_tracks
                /\ track_states' = r.track_states
                /\ next_track_id' = r.next_track_id
                /\ confirmed_tracks' = r.confirmed_tracks
                /\ created_ids' = r.created_ids
                /\ call' = r.call
         /\ UNCHANGED <<alertVars, faceVars, restVars>>

-----------------------------------------------------------------------------
(* The alert counter shared by the camera workers                          *)
(* (multi_camera_surveillance.py): every worker thread runs                *)
(* "self.alert_count += 1" (lines 918, 929, 941, 952, 1353, ...) with no    *)
(* lock; the statement is a load of the attribute, an addition and a store, *)
(* and another thread may run between the load and the store.              *)

\* the worker of a camera has an alert to count: it loads self.alert_count
LoadAlertCount(camera_name) ==
    /\ counting[camera_name].pc = "idle"
    /\ counting[camera_name].done < MaxIncrements
    /\ counting' = [counting EXCEPT ![camera_name].pc = "loaded",
                                    ![camera_name].loaded = alert_count]
    /\ UNCHANGED alert_count
    /\ UNCHANGED othersOfCount

\* it stores the loaded value plus one
StoreAlertCount(camera_name) ==
    /\ counting[camera_name].pc = "loaded"
    /\ alert_count' = counting[camera_name].loaded + 1
    /\ counting' = [counting EXCEPT ![camera_name].pc = "idle",
                                    ![camera_name].done = @ + 1]
    /\ UNCHANGED othersOfCount

-----------------------------------------------------------------------------
(* The caller of update() writes the face verdict into the map it was     *)
(* handed (surveillance_manager.py 294-297).  update() returns             *)
(* state.copy() for every confirmed track (tracker.py 242-244): a new      *)
(* dictionary with the same keys, so an assignment to one of its keys      *)
(* stays in the copy.                                                      *)

\* variant: update() hands out the stored dictionaries themselves
store_after_write_shared(states, t, identity, status) ==
    IF t \in DOMAIN states
    THEN [states EXCEPT ![t].identity = identity, ![t].authorization_status = status]
    ELSE states

\* the store after the caller has assigned identity and
\* authorization_status in the snapshot of track t
store_after_write(states, t, identity, status) == states

\* lines 294-296: tracks[track_id]['identity'] = ..., and
\* tracks[track_id]['authorization_status'] = ...
AssignFaceResult ==
    \E t \in DOMAIN confirmed_tracks, v \in FacePool :
        /\ confirmed_tracks[t].authorization_status = "pending"
        /\ confirmed_tracks' =
              [confirmed_tracks EXCEPT
                  ![t].identity = face_result(v).person_name,
                  ![t].authorization_status = face_result(v).authorization_status]
        /\ track_states' = store_after_write(track_states, t,
                               face_result(v).person_name,
                               face_result(v).authorization_status)
        /\ assigned' = assigned \cup {t}
        /\ UNCHANGED <<active_tracks, next_track_id, clock, created_ids, call>>
        /\ UNCHANGED <<alertVars, faceVars, polygonVars, analyzerVars, pipelineVars,
                       supervisorVars, consumerVars, discoveryVars, frameVars, bagVars,
                       countVars, lifeVars, resultVars>>

-----------------------------------------------------------------------------
(* SurveillanceManager: the result queue between _process_frames and      *)
(* get_latest_result.  A result is named by the number of its frame.      *)

\* queue.Queue(maxsize=100) (line 59)
result_queue_maxsize == 100

Result(n) == [frame |-> n]

\* None
NoResult == [frame |-> 0]

othersOfResult ==
    <<trackerVars, alertVars, faceVars, polygonVars, analyzerVars, pipelineVars,
      supervisorVars, consumerVars, discoveryVars, frameVars, bagVars, countVars,
      lifeVars, snapVars>>

\* lines 193-215: one frame is processed and its result is put; a full
\* queue raises queue.Full
ProcessFrameResult ==
    /\ process_pc = "idle"
    /\ frames_processed < MaxResults
    /\ frames_processed' = frames_processed + 1
    /\ IF Len(result_queue) < result_queue_maxsize
       THEN /\ result_queue' = Append(result_queue, Result(frames_processed + 1))
            /\ process_pc' = "idle"
       ELSE /\ result_queue' = result_queue
            /\ process_pc' = "full"
    /\ UNCHANGED latest_call
    /\ UNCHANGED othersOfResult

\* lines 216-222: "Remove oldest result to make space"; the result is
\* given up if the queue has been emptied meanwhile
MakeRoom ==
    /\ process_pc = "full"
    /\ result_queue' = IF result_queue = <<>> THEN result_queue
                       ELSE Append(Tail(result_queue), Result(frames_processed))
    /\ process_pc' = "idle"
    /\ UNCHANGED <<frames_processed, latest_call>>
    /\ UNCHANGED othersOfResult

\* get_latest_result(): result_queue.get(block=False), None on queue.Empty
GetLatestResult ==
    /\ latest_call' =
          [returned |-> IF result_queue = <<>> THEN NoResult ELSE Head(result_queue),
           newest |-> IF result_queue = <<>> THEN NoResult
                      ELSE result_queue[Len(result_queue)],
           queued |-> Len(result_queue)]
    /\ result_queue' = IF result_queue = <<>> THEN result_queue ELSE Tail(result_queue)
    /\ UNCHANGED <<frames_processed, process_pc>>
    /\ UNCHANGED othersOfResult

-----------------------------------------------------------------------------
(* Abandoned objects (activity_analyzer.py, detect_abandoned_objects)      *)

\* abandoned_object_threshold (line 63), seconds
abandoned_object_threshold == 60

\* "backpack, handbag, suitcase" (line 416)
bag_classes == {24, 26, 28}

\* a backpack and a suitcase, each where it stands
Backpack == [class_id |-> 24, bbox |-> <<290, 290, 310, 310>>]
Suitcase == [class_id |-> 28, bbox |-> <<480, 280, 520, 320>>]
BagFrames == { <<>>, <<Backpack>>, <<Suitcase>>, <<Backpack, Suitcase>> }

\* seconds between two analyze_frame calls: frames in a row and the gap
\* of a camera that was away
BagClockSteps == {30, 60, 120}

\* object_id = f"bag_{bag_center[0]}_{bag_center[1]}"
object_id_of(bag_det) == box_center(bag_det.bbox)

cleanup_after_one(threshold) == threshold

\* "cutoff_time = current_time - self.abandoned_object_threshold * 2"
cleanup_after(threshold) == threshold * 2

RECURSIVE detect_bags_from(_, _, _, _)
\* lines 419-462, the loop over the bag detections; st carries the
\* activities collected and stationary_objects
detect_bags_from(bag_detections, zs, st, current_time) ==
    IF bag_detections = <<>> THEN st
    ELSE LET bag_det == Head(bag_detections)
             bag_center == box_center(bag_det.bbox)
             object_id == object_id_of(bag_det)
             objects == st.stationary_objects
         IN IF object_id \notin DOMAIN objects
            THEN detect_bags_from(Tail(bag_detections), zs,
                     [activities |-> st.activities,
                      stationary_objects |->
                          [o \in DOMAIN objects \cup {object_id} |->
                              IF o = object_id
                              THEN [first_seen |-> current_time,
                                    last_seen |-> current_time]
                              ELSE objects[o]]],
                     current_time)
            ELSE IF current_time - objects[object_id].first_seen
                        >= abandoned_object_threshold
            THEN detect_bags_from(Tail(bag_detections), zs,
                     [activities |-> Append(st.activities,
                          SuspiciousActivity("abandoned_object", "medium", -1,
                              current_time, bag_center,
                              zone_name_of(get_zone_for_point(zs, bag_center)))),
                      stationary_objects |->
                          Restrict(objects, DOMAIN objects \ {object_id})],
                     current_time)
            ELSE detect_bags_from(Tail(bag_detections), zs,
                     [activities |-> st.activities,
                      stationary_objects |->
                          [objects EXCEPT ![object_id].last_seen = current_time]],
                     current_time)

\* detect_abandoned_objects(detections, current_time): the activities
\* returned and stationary_objects after the clean-up of lines 465-469
detect_abandoned_objects(detections, zs, objects, current_time) ==
    LET st == detect_bags_from(
                  SelectSeq(detections, LAMBDA det : det.class_id \in bag_classes),
                  zs, [activities |-> <<>>, stationary_objects |-> objects],
                  current_time)
        cutoff_time == current_time - cleanup_after(abandoned_object_threshold)
    IN [activities |-> st.activities,
        stationary_objects |->
            Restrict(st.stationary_objects,
                     {o \in DOMAIN st.stationary_objects :
                          st.stationary_objects[o].last_seen > cutoff_time})]

\* history: the latest sighting of each object of the frame, and whether
\* that sighting opened a state
next_last_sighting(detections, objects, current_time) ==
    LET seen == {object_id_of(detections[i]) : i \in 1..Len(detections)}
    IN [o \in DOMAIN last_sighting \cup seen |->
           IF o \in seen
           THEN [time |-> current_time, opened |-> o \notin DOMAIN objects]
           ELSE last_sighting[o]]

\* one analyze_frame call on a frame without tracks: with no track and so
\* no weapon activity, the call is detect_abandoned_objects and the
\* history append
AnalyzeBagFrame ==
    /\ bag_call.n < MaxBagCalls
    /\ \E detections \in BagFrames, dt \in BagClockSteps :
       \E r \in {detect_abandoned_objects(detections, zones, stationary_objects,
                                          bag_call.time + dt)} :
            /\ stationary_objects' = r.stationary_objects
            /\ activity_history' = trim_history(activity_history \o r.activities)
            /\ bag_call' = [n |-> bag_call.n + 1, time |-> bag_call.time + dt,
                            detections |-> detections, activities |-> r.activities,
                            before |-> stationary_objects,
                            sightings |-> last_sighting]
            /\ last_sighting' = next_last_sighting(detections, stationary_objects,
                                                   bag_call.time + dt)
    /\ UNCHANGED <<zones, zone_intrusions, active_activities, analysis, emitted,
                   track_log>>
    /\ UNCHANGED othersOfBags

-----------------------------------------------------------------------------
(* One camera's frames through tracker and analyzer                        *)
(* (SurveillanceManager._process_single_frame): one person stands in front *)
(* of the camera, is detected on the first frame and followed by the       *)
(* per-object tracker from then on; now and then the person moves 200 px.  *)

\* start_surveillance (surveillance_api.py): the camera's manager gets its
\* default zone before it starts
AddDefaultZones ==
    /\ zones = <<>>
    /\ zones' = <<default_zone>>
    /\ UNCHANGED <<zone_intrusions, active_activities, activity_history,
                   analysis, emitted, track_log>>
    /\ UNCHANGED othersOfAnalyzer

\* history: the frame just taken
next_pipeline(dt, rate, moved, current_time, activities) ==
    [rate |-> rate,
     frames |-> pipeline.frames + 1,
     phase |-> IF dt = 0 THEN pipeline.phase + 1 ELSE 1,
     shifts |-> pipeline.shifts + (IF moved THEN 1 ELSE 0),
     shift_time |-> IF moved THEN current_time ELSE pipeline.shift_time,
     loitered |-> IF moved THEN pipeline.loitering ELSE pipeline.loitered,
     loitering |-> \E i \in 1..Len(activities) :
                       activities[i].activity_type = "loitering"]

\* tracks = self.tracker.update(frame, person_detections), then
\* self.activity_analyzer.analyze_frame(detections, tracks, timestamp); no
\* face is recognised, so every track stays "pending"
ProcessFrame ==
    /\ zones # <<>>
    /\ \E rate \in FrameRates, moved \in BOOLEAN :
        LET dt == IF pipeline.frames = 0 \/ pipeline.phase < rate THEN 0 ELSE 1
            detections == IF pipeline.frames = 0 THEN <<PersonDetection>> ELSE <<>>
            report == [t \in active_tracks |->
                          IF moved THEN ShiftBox(track_states[t].bbox)
                          ELSE track_states[t].bbox]
        IN /\ pipeline.frames > 0 => rate = pipeline.rate
           /\ moved => (pipeline.shifts < MaxShifts /\ active_tracks # {})
           /\ clock + dt <= MaxPipelineClock
           /\ \E u \in {update(dt, detections, report, {1})} :
              \E a \in {analyze_frame(u.confirmed_tracks, u.clock)} :
              \E r \in {analysis_step(a, u.confirmed_tracks, u.clock)} :
                /\ clock' = u.clock
                /\ active_tracks' = u.active_tracks
                /\ track_states' = u.track_states
                /\ next_track_id' = u.next_track_id
                /\ confirmed_tracks' = u.confirmed_tracks
                /\ created_ids' = u.created_ids
                /\ call' = u.call
                /\ zone_intrusions' = r.zone_intrusions
                /\ active_activities' = r.active_activities
                /\ activity_history' = r.activity_history
                /\ analysis' = r.analysis
                /\ emitted' = r.emitted
                /\ track_log' = r.track_log
                /\ pipeline' = next_pipeline(dt, rate, moved, u.clock, a.activities)
           /\ UNCHANGED zones
           /\ UNCHANGED othersOfPipeline

-----------------------------------------------------------------------------
(* MultiCameraAISurveillance: start_camera_surveillance,                   *)
(* stop_camera_surveillance and the process_camera_feed threads.  Flask    *)
(* runs with threaded=True, so requests interleave with each other and     *)
(* with the workers between any two statements.                            *)

\* variant: the worker never looks at active_cameras
loop_condition_always(camera_name, active) == TRUE

\* line 743: while camera_name in self.active_cameras
loop_condition(camera_name, active) == camera_name \in active

\* variant: no try/except inside the loop, an exception ends the thread
on_exception_fatal(thread) == [thread EXCEPT !.pc = "done"]

\* lines 783-785: except Exception: print, time.sleep(2), back to the loop
on_exception(thread) == [thread EXCEPT !.pc = "except"]

\* api_cameras, lines 437-444: the status of one camera
api_cameras(camera_name) ==
    IF camera_name \in active_cameras THEN "online" ELSE "offline"

\* the threads of a camera that have not ended
live_threads(camera_name) ==
    {w \in 1..Len(threads) :
        threads[w].camera = camera_name /\ threads[w].pc # "done"}

\* the threads of a camera that are inside process_frame_ai
processing_threads(camera_name) ==
    {w \in 1..Len(threads) :
        threads[w].camera = camera_name /\ threads[w].pc = "process"}

\* the start calls of a camera that have passed the check of line 1364 and
\* have not returned
starting(camera_name) ==
    {r \in 1..Len(start_requests) :
        /\ start_requests[r].camera = camera_name
        /\ start_requests[r].pc \in {"set", "spawn"}}

\* a request arrives: /api/start/<camera_name>
BeginStart(camera_name) ==
    /\ camera_name \in camera_urls
    /\ Len(start_requests) < MaxStartRequests
    /\ start_requests' = Append(start_requests, [camera |-> camera_name, pc |-> "check"])
    /\ UNCHANGED <<active_cameras, latest_frames, threads, broken>>
    /\ UNCHANGED othersOfSupervisor

\* lines 1364-1366: if camera_name in self.active_cameras: return
StartCheck(r) ==
    /\ start_requests[r].pc = "check"
    /\ start_requests' =
         [start_requests EXCEPT ![r].pc =
             IF start_requests[r].camera \in active_cameras THEN "returned" ELSE "set"]
    /\ UNCHANGED <<active_cameras, latest_frames, threads, broken>>
    /\ UNCHANGED othersOfSupervisor

\* line 1369: self.active_cameras[camera_name] = True
StartSet(r) ==
    /\ start_requests[r].pc = "set"
    /\ active_cameras' = active_cameras \cup {start_requests[r].camera}
    /\ start_requests' = [start_requests EXCEPT ![r].pc = "spawn"]
    /\ threads' = [w \in 1..Len(threads) |->
                      IF threads[w].camera = start_requests[r].camera
                      THEN [threads[w] EXCEPT !.late = 0] ELSE threads[w]]
    /\ UNCHANGED <<latest_frames, broken>>
    /\ UNCHANGED othersOfSupervisor

\* lines 1371-1376: thread = threading.Thread(...); thread.start()
StartSpawn(r) ==
    /\ start_requests[r].pc = "spawn"
    /\ Len(threads) < MaxThreads
    /\ threads' = Append(threads, [camera |-> start_requests[r].camera,
                                   pc |-> "loop", late |-> 0])
    /\ start_requests' = [start_requests EXCEPT ![r].pc = "returned"]
    /\ UNCHANGED <<active_cameras, latest_frames, broken>>
    /\ UNCHANGED othersOfSupervisor

\* /api/stop/<camera_name> and stop_camera_surveillance, lines 1379-1385
StopCamera(camera_name) ==
    /\ camera_name \in active_cameras
    /\ active_cameras' = active_cameras \ {camera_name}
    /\ latest_frames' = latest_frames \ {camera_name}
    /\ UNCHANGED <<start_requests, threads, broken>>
    /\ UNCHANGED othersOfSupervisor

\* the camera stops delivering frames for good
CaptureBreaks(camera_name) ==
    /\ camera_name \notin broken
    /\ broken' = broken \cup {camera_name}
    /\ UNCHANGED <<active_cameras, latest_frames, start_requests, threads>>
    /\ UNCHANGED othersOfSupervisor

\* line 743 and, when the loop ends, lines 787-788
WorkerLoop(w) ==
    /\ threads[w].pc = "loop"
    /\ threads' = [threads EXCEPT ![w].pc =
                      IF loop_condition(threads[w].camera, active_cameras)
                      THEN "read" ELSE "done"]
    /\ UNCHANGED <<active_cameras, latest_frames, start_requests, broken>>
    /\ UNCHANGED othersOfSupervisor

\* lines 745-746: ret, frame = cap.read(); with a frame the thread enters
\* process_frame_ai (line 768)
WorkerRead(w) ==
    /\ threads[w].pc = "read"
    /\ threads' = [threads EXCEPT ![w] =
          IF threads[w].camera \in broken
          THEN [@ EXCEPT !.pc = "reconnect"]
          ELSE [@ EXCEPT !.pc = "process",
                         !.late = IF threads[w].camera \in active_cameras THEN @
                                  ELSE Min(@ + 1, 2)]]
    /\ UNCHANGED <<active_cameras, latest_frames, start_requests, broken>>
    /\ UNCHANGED othersOfSupervisor

\* lines 747-755: release, sleep, open again, continue
WorkerReconnect(w) ==
    /\ threads[w].pc = "reconnect"
    /\ threads' = [threads EXCEPT ![w].pc = "loop"]
    /\ UNCHANGED <<active_cameras, latest_frames, start_requests, broken>>
    /\ UNCHANGED othersOfSupervisor

\* line 768: process_frame_ai returns
WorkerProcess(w) ==
    /\ threads[w].pc = "process"
    /\ threads' = [threads EXCEPT ![w].pc = "publish"]
    /\ UNCHANGED <<active_cameras, latest_frames, start_requests, broken>>
    /\ UNCHANGED othersOfSupervisor

\* lines 771-781: stats, self.latest_frames[camera_name] = processed_data,
\* log_activities, time.sleep(0.33)
WorkerPublish(w) ==
    /\ threads[w].pc = "publish"
    /\ latest_frames' = latest_frames \cup {threads[w].camera}
    /\ threads' = [threads EXCEPT ![w].pc = "loop"]
    /\ UNCHANGED <<active_cameras, start_requests, broken>>
    /\ UNCHANGED othersOfSupervisor

\* an exception inside process_frame_ai or while publishing its result
WorkerRaises(w) ==
    /\ threads[w].pc \in {"process", "publish"}
    /\ threads' = [threads EXCEPT ![w] = on_exception(threads[w])]
    /\ UNCHANGED <<active_cameras, latest_frames, start_requests, broken>>
    /\ UNCHANGED othersOfSupervisor

\* lines 784-785: the handler is done, back to line 743
WorkerRecovers(w) ==
    /\ threads[w].pc = "except"
    /\ threads' = [threads EXCEPT ![w].pc = "loop"]
    /\ UNCHANGED <<active_cameras, latest_frames, start_requests, broken>>
    /\ UNCHANGED othersOfSupervisor

\* the steps a started thread takes on its own
WorkerStep(w) ==
    \/ WorkerLoop(w) \/ WorkerRead(w) \/ WorkerReconnect(w)
    \/ WorkerProcess(w) \/ WorkerPublish(w) \/ WorkerRecovers(w)

\* the steps a start call takes once it has arrived
RequestStep(r) == StartCheck(r) \/ StartSet(r) \/ StartSpawn(r)

-----------------------------------------------------------------------------
(* MultiCameraAISurveillance._camera_discovery_loop: every pass compares   *)
(* the cameras the database reports with self.camera_urls.                 *)

\* the order in which the cameras are listed
camera_order == <<"camA", "camB">>

\* variant: every reported camera is set up again
needs_setup_always(camera_name, urls) == TRUE

\* line 1434: if camera_name not in self.camera_urls
needs_setup(camera_name, urls) == camera_name \notin urls

\* lines 1442-1467 and 220-248: the analyzer made for a camera, with the
\* full-frame zone it is given
new_analyzer(camera_name, pass) ==
    [made |-> pass, zones |-> <<[name |-> "main_area", points |-> FullFrame]>>]

\* one pass, lines 1425-1486, for the cameras auto_detect_cameras reports
DiscoveryPass(new_cameras) ==
    LET pass == discovery.n + 1
        setup == {c \in new_cameras : needs_setup(c, camera_urls)}
        removed == camera_urls \ new_cameras
        started == SelectSeq(camera_order,
                             LAMBDA c : c \in setup /\ c \notin active_cameras)
    IN /\ discovery.n < MaxPasses
       /\ Len(threads) + Len(started) <= MaxThreads
       /\ camera_urls' = (camera_urls \cup setup) \ removed
       /\ person_trackers' =
             [c \in DOMAIN person_trackers \cup setup |->
                 IF c \in setup THEN pass ELSE person_trackers[c]]
       /\ activity_analyzers' =
             [c \in DOMAIN activity_analyzers \cup setup |->
                 IF c \in setup THEN new_analyzer(c, pass) ELSE activity_analyzers[c]]
       /\ active_cameras' = (active_cameras \cup setup) \ removed
       /\ latest_frames' = latest_frames \ (removed \cap active_cameras)
       /\ threads' =
             [w \in 1..Len(threads) |->
                 IF threads[w].camera \in Range(started)
                 THEN [threads[w] EXCEPT !.late = 0] ELSE threads[w]]
             \o [i \in 1..Len(started) |->
                    [camera |-> started[i], pc |-> "loop", late |-> 0]]
       /\ discovery' = [n |-> pass, new_cameras |-> new_cameras,
                        urls_before |-> camera_urls]
       /\ UNCHANGED <<start_requests, broken>>
       /\ UNCHANGED othersOfDiscovery

-----------------------------------------------------------------------------
(* Properties of the position history *)

\* C32: after every update(), the position_history of each live track is
\* strictly increasing in timestamp and holds only samples of the last
\* history_window (10) seconds before the clock of that call.
C32_HistoryOrderedAndRecent ==
    \A t \in DOMAIN track_states :
        LET history == track_states[t].position_history
        IN /\ \A i \in 1..Len(history) - 1 :
                  history[i].timestamp < history[i + 1].timestamp
           /\ \A i \in 1..Len(history) :
                  /\ history[i].timestamp <= clock
                  /\ clock - history[i].timestamp <= 10

\* a track that has lost samples to the window and still holds several,
\* the oldest exactly 10 seconds old
C32_Witness ==
    \E t \in DOMAIN track_states :
        LET history == track_states[t].position_history
        IN /\ Len(history) >= 3
           /\ Len(history) < track_states[t].frame_count
           /\ clock - history[1].timestamp = 10

-----------------------------------------------------------------------------
(* Properties of the shared alert counter *)

RECURSIVE increments_done(_)
\* the increments the workers of the cameras in S have completed
increments_done(S) ==
    IF S = {} THEN 0
    ELSE LET c == CHOOSE x \in S : TRUE
         IN counting[c].done + increments_done(S \ {c})

\* C33: no increment of alert_count is lost: whenever no worker is inside
\* an increment, alert_count has grown by the number of increments the
\* workers have performed.
C33_NoLostIncrement ==
    (\A c \in Cameras : counting[c].pc = "idle") =>
        alert_count = increments_done(Cameras)

-----------------------------------------------------------------------------
(* Properties of the AlertManager's life cycle *)

\* C34: whatever start() and stop() calls have been made, at most one
\* thread is inside _process_alerts.
C34_SingleConsumer == Cardinality(live_consumers) <= 1

\* the alerts taken from the queue that have the given type
taken_of(type) == {i \in 1..Len(dequeued) : dequeued[i].activity_type = type}

\* C37: while the AlertManager is not running (before start(), after
\* stop() has returned) a process_activity call of a type not in cooldown
\* still records the alert time, queues the alert and counts it, a call of
\* a type in cooldown changes nothing, and no alert is taken from the
\* queue; an alert queued then is taken only after a later start().
C37_StoppedManagerStillQueues ==
    /\ [](\A o \in life.outside :
              /\ o.activity_type \in DOMAIN last_alert_times
              /\ taken_of(o.activity_type) # {} => life.starts > o.starts)
    /\ [][outside_running =>
            /\ dequeued' = dequeued
            /\ alert_steps'.calls # alert_steps.calls =>
                  LET act == Emit(life'.last_type)
                  IN IF is_in_cooldown(last_alert_times, act)
                     THEN /\ alert_queue' = alert_queue
                          /\ total_alerts' = total_alerts
                          /\ last_alert_times' = last_alert_times
                     ELSE /\ Len(alert_queue') = Len(alert_queue) + 1
                          /\ SubSeq(alert_queue', 1, Len(alert_queue)) = alert_queue
                          /\ alert_queue'[Len(alert_queue')].activity_type
                                 = act.activity_type
                          /\ total_alerts' = total_alerts + 1
                          /\ last_alert_times'[act.activity_type] = act.timestamp
                          /\ is_in_cooldown(last_alert_times', act)]_vars

\* an alert queued after a stop() has been dispatched after a second start()
C37_Witness ==
    \E o \in life.outside :
        /\ o.stops >= 1
        /\ life.starts > o.starts
        /\ \E i \in 1..Len(dispatched) :
               dispatched[i].alert.activity_type = o.activity_type

-----------------------------------------------------------------------------
(* Properties of the snapshots update() returns *)

-----------------------------------------------------------------------------
(* Properties of abandoned objects *)

\* the objects sighted by the last call and the ABANDONED_OBJECT
\* activities it returned for object o
bags_seen == {object_id_of(bag_call.detections[i]) : i \in 1..Len(bag_call.detections)}
abandoned_for(o) ==
    {i \in 1..Len(bag_call.activities) :
        /\ bag_call.activities[i].activity_type = "abandoned_object"
        /\ bag_call.activities[i].location = o}

\* the first sighting opens the state and emits nothing
opens_silently(o) ==
    (o \in bags_seen /\ o \notin DOMAIN bag_call.before) =>
        /\ abandoned_for(o) = {}
        /\ o \in DOMAIN stationary_objects
        /\ stationary_objects[o].first_seen = bag_call.time

\* a later sighting emits once and deletes the state when the state has
\* the threshold's age, and emits nothing before
emits_when_aged(o) ==
    (o \in bags_seen /\ o \in DOMAIN bag_call.before) =>
        IF bag_call.time - bag_call.before[o].first_seen >= abandoned_object_threshold
        THEN Cardinality(abandoned_for(o)) = 1 /\ o \notin DOMAIN stationary_objects
        ELSE /\ abandoned_for(o) = {}
             /\ o \in DOMAIN stationary_objects
             /\ stationary_objects[o].first_seen = bag_call.before[o].first_seen

\* a state that has not been sighted for twice the threshold
unsighted_long(o) ==
    /\ o \in DOMAIN bag_call.before
    /\ bag_call.time - bag_call.before[o].last_seen >= 2 * abandoned_object_threshold

\* C31: for every object id, the first sighting opens its state and emits
\* nothing; a later sighting at which the state is at least
\* abandoned_object_threshold old emits exactly one ABANDONED_OBJECT and
\* deletes the state; a state not sighted for twice the threshold is
\* removed without an emission.
C31_BagLifecycle ==
    bag_call.n > 0 =>
        \A o \in bags_seen \cup DOMAIN bag_call.before :
            /\ opens_silently(o)
            /\ unsighted_long(o) =>
                   abandoned_for(o) = {} /\ o \notin DOMAIN stationary_objects
            /\ ~unsighted_long(o) => emits_when_aged(o)

\* C39: an object whose state was opened by a sighting at t0 and that is
\* next sighted at t0 + d, abandoned_object_threshold <= d < twice the
\* threshold, is reported by that call, whatever calls without it lie
\* in between.
C39_SecondSightingEmits ==
    \A o \in bags_seen :
        (/\ o \in DOMAIN bag_call.sightings
         /\ bag_call.sightings[o].opened
         /\ bag_call.time - bag_call.sightings[o].time >= abandoned_object_threshold
         /\ bag_call.time - bag_call.sightings[o].time < 2 * abandoned_object_threshold)
        => Cardinality(abandoned_for(o)) = 1

\* the backpack, first seen 90 s ago, was missing from the call 30 s ago
\* and is reported now
C39_Witness ==
    /\ bag_call.detections = <<Backpack>>
    /\ object_id_of(Backpack) \in DOMAIN bag_call.sightings
    /\ bag_call.sightings[object_id_of(Backpack)].opened
    /\ bag_call.time - bag_call.sightings[object_id_of(Backpack)].time = 90
    /\ bag_call.n >= 3
    /\ Cardinality(abandoned_for(object_id_of(Backpack))) = 1

-----------------------------------------------------------------------------
(* Properties of zone configuration and of frames with weapons *)

\* C27: every zone in the analyzer's list has at least 3 points and only
\* valid activity types; a request with an unknown activity-type string or
\* with fewer than 3 vertices is answered with an error and adds nothing.
C27_ZonesAreWellFormed ==
    \A i \in 1..Len(zones) :
        /\ Len(zones[i].points) >= 3
        /\ zones[i].activity_types \subseteq ActivityTypeValues

\* C28: analyze_frame returns normally whatever polygons the configured
\* zones have: no call ends in an exception.
C28_AnalysisNeverRaises == frame_call.outcome # "IndexError"

\* C29: no activity returned by analyze_frame names a track whose
\* frame_count is below 10, weapon co-location included.
C29_NoActivityForShortTrack ==
    \A i \in 1..Len(frame_call.activities) :
        LET track_id == frame_call.activities[i].track_id
        IN track_id \in DOMAIN frame_call.tracks =>
               frame_call.tracks[track_id].frame_count >= min_analysis_frames

\* the weapon detections of the last frame, those of them with a track
\* center less than 100 px away, and the weapon activities returned
weapons_seen ==
    SelectSeq(frame_call.detections, LAMBDA det : det.class_id \in {34, 43, 76})
in_reach(det, t) ==
    distance2(box_center(det.bbox), frame_call.tracks[t].center) < 100 * 100
weapons_in_reach ==
    SelectSeq(weapons_seen, LAMBDA det : \E t \in DOMAIN frame_call.tracks : in_reach(det, t))
weapon_activities ==
    SelectSeq(frame_call.activities, LAMBDA a : a.activity_type = "weapon_detected")

\* C30: analyze_frame returns exactly one WEAPON_DETECTED (critical) for
\* each weapon-class detection that has a track center less than 100 px
\* from its center, attributed to a track no other track is nearer than,
\* and nothing for a weapon without such a track.
C30_WeaponGoesToNearestTrack ==
    frame_call.outcome = "returned" =>
        /\ Len(weapon_activities) = Len(weapons_in_reach)
        /\ \A i \in 1..Len(weapon_activities) :
              LET a == weapon_activities[i]
                  det == weapons_in_reach[i]
              IN /\ a.threat_level = "critical"
                 /\ a.location = box_center(det.bbox)
                 /\ a.track_id \in DOMAIN frame_call.tracks
                 /\ in_reach(det, a.track_id)
                 /\ \A t \in DOMAIN frame_call.tracks :
                        distance2(a.location, frame_call.tracks[a.track_id].center)
                            <= distance2(a.location, frame_call.tracks[t].center)

\* a knife with two tracks in reach, the nearer being the later one, and a
\* bat with no track in reach: one activity, for the nearer track
C30_Witness ==
    /\ frame_call.outcome = "returned"
    /\ frame_call.detections = <<Knife, Bat>>
    /\ DOMAIN frame_call.tracks = {1, 2}
    /\ frame_call.tracks[1].center = <<50, 149>>
    /\ frame_call.tracks[2].center = <<50, 50>>
    /\ Len(weapon_activities) = 1
    /\ weapon_activities[1].track_id = 2

-----------------------------------------------------------------------------
(* Properties of the camera discovery loop *)

\* C25: once a camera has been removed, the supervisor holds no tracker, no
\* analyzer (and so no zone) and no authorization memory for it.
C25_RemovedCameraLeavesNothing ==
    \A c \in Cameras :
        c \notin camera_urls =>
            /\ c \notin DOMAIN person_trackers
            /\ c \notin DOMAIN activity_analyzers
            /\ c \notin DOMAIN last_authorized_person

\* the threads of a camera, by their position in the list of threads
threads_of(list, c) == {w \in 1..Len(list) : list[w].camera = c}

\* C26: a discovery pass starts a worker for every camera that is newly
\* reported, stops the worker of every camera that is no longer reported,
\* and leaves the worker, the tracker and the analyzer of every camera
\* reported before and after as they were.
C26_PassTouchesOnlyTheDifference ==
    [][discovery'.n = discovery.n + 1 =>
        \A c \in Cameras :
          /\ (c \in discovery'.new_cameras /\ c \notin camera_urls) =>
                /\ c \in camera_urls' /\ c \in active_cameras'
                /\ \E w \in threads_of(threads', c) :
                      w > Len(threads) /\ threads'[w].pc = "loop"
          /\ (c \in camera_urls /\ c \notin discovery'.new_cameras) =>
                /\ c \notin camera_urls' /\ c \notin active_cameras'
          /\ (c \in camera_urls /\ c \in discovery'.new_cameras) =>
                /\ c \in camera_urls'
                /\ (c \in active_cameras') = (c \in active_cameras)
                /\ threads_of(threads', c) = threads_of(threads, c)
                /\ \A w \in threads_of(threads, c) : threads'[w] = threads[w]
                /\ person_trackers'[c] = person_trackers[c]
                /\ activity_analyzers'[c] = activity_analyzers[c]]_vars

C26_Witness ==
    /\ discovery.n = 2
    /\ discovery.urls_before = {"camA"}
    /\ discovery.new_cameras = {"camA", "camB"}
    /\ "camA" \notin active_cameras
    /\ "camB" \in active_cameras
    /\ person_trackers["camA"] = 0
    /\ person_trackers["camB"] = 2

-----------------------------------------------------------------------------
(* Properties of the AlertManager's consumer *)

\* the channels invoked for an alert so far, in order
channels_of(alert) ==
    LET own == SelectSeq(dispatched, LAMBDA d : d.alert = alert)
    IN [i \in 1..Len(own) |-> own[i].channel]

\* the alerts whose handling is over
handled ==
    SelectSeq(dequeued, LAMBDA a :
        ~(alert_thread.alert = a /\ alert_thread.pc \in Range(Channels)))

\* C21: a channel that fails (email, database callback, websocket callback)
\* is followed by the next channel for the same alert exactly as a channel
\* that succeeds, the consumer goes back to its loop after the last one, and
\* no step of the consumer changes last_alert_times.
C21_FailureIsContained ==
    [][/\ \A i \in 1..Len(Channels) :
            (alert_thread.pc = Channels[i] /\ alert_thread'.pc # Channels[i])
                => /\ alert_thread'.pc = next_stage(Channels[i])
                   /\ Len(dispatched') = Len(dispatched) + 1
       /\ (alert_thread.pc # alert_thread'.pc /\ alert_thread.pc # "none")
                => last_alert_times' = last_alert_times
       /\ \A a \in Range(handled') : channels_of(a)' = Channels]_vars

C21_Witness ==
    /\ Len(handled) = 2
    /\ \A i \in 1..3 : ~dispatched[i].ok
    /\ dispatched[4].ok
    /\ alert_thread.pc = "get"

\* the alerts on the queue at stop() that were dequeued all the same
taken_after_stop ==
    {i \in 1..Len(lifecycle.queue_at_stop) :
        lifecycle.queue_at_stop[i] \in Range(dequeued)}

put_so_far == dequeued \o alert_queue

\* C23: while the consumer runs, every alert process_activity has queued is
\* eventually dequeued and handed to every channel exactly once, and alerts
\* are dequeued in the order they were queued.
C23_QueuedIsHandledInOrder ==
    /\ [](/\ Len(put_so_far) = Len(enqueued)
          /\ \A i \in 1..Len(enqueued) :
                /\ put_so_far[i].activity_type = enqueued[i].activity_type
                /\ put_so_far[i].timestamp = enqueued[i].timestamp
          /\ \A a \in Range(handled) : channels_of(a) = Channels)
    /\ \A n \in 1..MaxSubmits :
          (is_running /\ Len(enqueued) >= n) ~> (Len(handled) >= n \/ ~is_running)

C23_Witness ==
    /\ is_running
    /\ Len(handled) = 2
    /\ Len(enqueued) = 2
    /\ lifecycle.phase = "started"

\* C24: every snapshot is written by the consumer thread, after the alert
\* was dequeued; process_activity writes nothing to disk.
C24_SnapshotByConsumer ==
    \A i \in 1..Len(disk_writes) :
        /\ disk_writes[i].by = "consumer"
        /\ disk_writes[i].alert \in Range(dequeued)

-----------------------------------------------------------------------------
(* Properties of the camera workers *)

\* C17: whatever the interleaving of start requests, stop requests and
\* worker steps, at most one process_camera_feed loop is running for a
\* camera, so that no two threads are inside process_frame_ai (update and
\* analyze_frame on the camera's tracker) at once.
C17_OneWorkerPerCamera ==
    \A camera_name \in Cameras :
        /\ Cardinality(live_threads(camera_name)) <= 1
        /\ Cardinality(processing_threads(camera_name)) <= 1

\* C18: once a camera is stopped and not started again, each of its workers
\* enters process_frame_ai at most once more (the tick in progress), and all
\* of them end.
C18_StopEndsWorker ==
    /\ [](\A w \in 1..Len(threads) : threads[w].late <= 1)
    /\ \A camera_name \in Cameras :
          <>[](camera_name \notin active_cameras)
              => <>[](live_threads(camera_name) = {})

C18_Witness ==
    \E w \in 1..Len(threads) :
        /\ threads[w].pc = "done"
        /\ threads[w].late = 1
        /\ threads[w].camera \notin active_cameras
        /\ live_threads(threads[w].camera) = {}

\* C19: a running camera whose every read fails from some moment on is
\* eventually reported by api_cameras as offline, and stays so.
C19_BrokenCameraFails ==
    \A camera_name \in Cameras :
        (/\ camera_name \in broken
         /\ camera_name \in active_cameras
         /\ live_threads(camera_name) # {})
            ~> [](api_cameras(camera_name) = "offline")

\* a step of thread w that leaves process_frame_ai or the publishing of its
\* result by an exception
RaiseStep(w) ==
    \/ threads[w].pc = "process" /\ threads'[w].pc \notin {"process", "publish"}
    \/ threads[w].pc = "publish" /\ threads'[w].pc \notin {"publish", "loop"}

\* C20: an exception raised inside a worker's tick takes that worker to the
\* handler inside its loop and from there back to the loop test; the step
\* changes no other thread and not active_cameras.
C20_ExceptionIsContained ==
    [][\A w \in 1..Len(threads) :
          /\ RaiseStep(w) =>
                /\ threads'[w].pc = "except"
                /\ Len(threads') = Len(threads)
                /\ \A v \in 1..Len(threads) : v # w => threads'[v] = threads[v]
                /\ active_cameras' = active_cameras
          /\ threads[w].pc = "except" => threads'[w].pc \in {"except", "loop"}]_vars

C20_Witness ==
    \E w, v \in 1..Len(threads) :
        /\ threads[w].pc = "except"
        /\ threads[v].camera # threads[w].camera
        /\ threads[v].pc = "process"

-----------------------------------------------------------------------------
(* Properties of loitering on tracks that come from PersonTracker.update() *)

\* the LOITERING activities of the latest analyze_frame call
LoiteringNow ==
    {i \in 1..Len(analysis.activities) :
        analysis.activities[i].activity_type = "loitering"}

\* seconds between the first and the last sample of the loiter window of
\* track t at the latest call
window_span(t) ==
    LET w == loiter_window(analysis.tracks[t].position_history, analysis.time)
    IN w[Len(w)].timestamp - w[1].timestamp

\* C14: LOITERING is emitted for a track that PersonTracker.update() produced
\* only if the samples that stayed within 50 px of the first one span at least
\* loitering_threshold seconds.
C14_LoiteringSpansThreshold ==
    \A i \in LoiteringNow :
        window_span(analysis.activities[i].track_id) >= loitering_threshold

\* C15: after a loitering track has moved 200 px, no LOITERING is emitted for
\* it during the next loitering_threshold seconds.
C15_ShiftResetsWindow ==
    (pipeline.shift_time >= 0 /\ pipeline.loitered) =>
        \A i \in LoiteringNow :
            analysis.activities[i].timestamp - pipeline.shift_time
                > loitering_threshold

-----------------------------------------------------------------------------
(* Properties of PersonTracker *)

\* C1: every track in the map returned by update() has
\* frame_count >= min_track_length (5); a track with a smaller frame_count
\* is held in the store but is not returned.
C1_ReturnedAreConfirmed ==
    /\ DOMAIN confirmed_tracks \subseteq DOMAIN track_states
    /\ \A t \in DOMAIN confirmed_tracks : confirmed_tracks[t].frame_count >= 5
    /\ \A t \in DOMAIN track_states :
          track_states[t].frame_count < 5 => t \notin DOMAIN confirmed_tracks

\* a returned track and, in the same store, a track too young to be returned
C1_Witness ==
    /\ confirmed_tracks # EmptyMap
    /\ \E t \in DOMAIN track_states : track_states[t].frame_count < 5

C4_IdsStrictlyIncreasing ==
    /\ \A i, j \in 1..Len(created_ids) : i < j => created_ids[i] < created_ids[j]
    /\ \A t \in DOMAIN track_states :
          t \in Range(created_ids) /\ track_states[t].track_id = t
    /\ \A i \in 1..Len(created_ids) : created_ids[i] < next_track_id

\* a track was removed by tracker failure and a track was created in the
\* same call, after the removal
C4_Witness ==
    \E t \in call.failed, d \in DOMAIN call.create_log :
        call.create_log[d].created /\ call.create_log[d].track_id > t

\* C5: the number of live tracks never exceeds max_tracks; at max_tracks an
\* unmatched detection creates no track and the existing tracks are left as
\* they were.
C5_CapacityRespected ==
    LET log == call.create_log
    IN /\ Cardinality(active_tracks) <= max_tracks
       /\ Cardinality(DOMAIN track_states) <= max_tracks
       /\ DOMAIN track_states = active_tracks
       /\ \A d \in DOMAIN log :
             (log[d].unmatched /\ log[d].size_before >= max_tracks) => ~log[d].created
       /\ \A t \in DOMAIN call.before_create :
             /\ t \in DOMAIN call.after_create
             /\ call.after_create[t] = call.before_create[t]
             /\ t \in DOMAIN track_states /\ track_states[t] = call.before_create[t]

\* an unmatched detection, whose tracker would initialise, arrives at a full
\* store and is dropped
C5_Witness ==
    \E d \in DOMAIN call.create_log :
        /\ call.create_log[d].unmatched
        /\ call.create_log[d].init_ok
        /\ call.create_log[d].size_before = max_tracks
        /\ ~call.create_log[d].created

-----------------------------------------------------------------------------
(* Properties of AlertManager *)

OfType(log, type) == SelectSeq(log, LAMBDA e : e.activity_type = type)

Apart(a, b) == IF a >= b THEN a - b ELSE b - a

\* C6: with one caller at a time, an activity of type T stamped less than
\* alert_cooldown (300 s) after the last enqueued activity of type T is
\* suppressed and last_alert_times, the queue and total_alerts stay as they
\* were; one stamped at least alert_cooldown after it is enqueued.  So the
\* queued alerts of one type are at least alert_cooldown apart.
C6_CooldownGate ==
    /\ alert_call.outcome # "none" =>
         LET c == alert_call
             type == c.activity.activity_type
             ts == c.activity.timestamp
             prev == OfType(c.enqueued_before, type)
             last == prev[Len(prev)].timestamp
             alert == [timestamp |-> ts, activity_type |-> type,
                       camera_id |-> "default"]
         IN /\ (prev # <<>> /\ ts - last < alert_cooldown) =>
                  /\ c.outcome = "suppressed"
                  /\ last_alert_times = c.times_before
                  /\ alert_queue = c.queue_before
                  /\ total_alerts = c.total_before
                  /\ enqueued = c.enqueued_before
            /\ (prev = <<>> \/ ts - last >= alert_cooldown) =>
                  /\ c.outcome = "queued"
                  /\ alert_queue = Append(c.queue_before, alert)
                  /\ total_alerts = c.total_before + 1
                  /\ last_alert_times[type] = ts
                  /\ Len(enqueued) = Len(c.enqueued_before) + 1
    /\ \A type \in ActivityTypes :
         LET q == OfType(enqueued, type)
         IN \A i \in 1..Len(q) - 1 : q[i + 1].timestamp - q[i].timestamp >= alert_cooldown

\* three calls of one type: the first queued, one inside the cooldown
\* suppressed, one at the end of the cooldown queued
C6_Witness ==
    /\ alert_steps.calls = 3
    /\ Len(enqueued) = 2
    /\ enqueued[1].activity_type = enqueued[2].activity_type
    /\ enqueued[2].timestamp - enqueued[1].timestamp = alert_cooldown
    /\ total_alerts = 2

\* C7: the cooldown is per camera: the first activity of type T that a
\* camera submits is enqueued whatever the other cameras have submitted.
C7_FirstOfCameraIsQueued ==
    alert_call.first_for_camera => alert_call.outcome = "queued"

\* C8: when camera threads run process_activity side by side, two queued
\* alerts of one type are never less than alert_cooldown apart.
C8_OnePerCooldownUnderThreads ==
    \A i, j \in 1..Len(enqueued) :
        (i < j /\ enqueued[i].activity_type = enqueued[j].activity_type) =>
            Apart(enqueued[i].timestamp, enqueued[j].timestamp) >= alert_cooldown

-----------------------------------------------------------------------------
(* Properties of the authorization memory *)

\* C9 as stated: after a tick that records an authorized face, the first
\* 9 consecutive ticks with a person and no face raise no intruder alert,
\* and the 10th raises exactly one and deletes the camera's memory.
C9_AlertOnTenthTick ==
    \A c \in Cameras :
        /\ grace[c].len \in 1..9 => grace[c].alerts = 0
        /\ grace[c].len = 10 =>
               /\ grace[c].alerts = 1
               /\ c \notin DOMAIN last_authorized_person

\* C9 amended: after a tick that records an authorized face, the first
\* max_frames_without_face (10) consecutive ticks with a person and no
\* face raise no intruder alert and keep the memory, counting the ticks;
\* the 11th raises exactly one alert, for a hidden face, and deletes the
\* camera's memory.
C9_AlertOnEleventhTick ==
    \A c \in Cameras :
        /\ grace[c].len \in 1..max_frames_without_face =>
               /\ grace[c].alerts = 0
               /\ c \in DOMAIN last_authorized_person
               /\ last_authorized_person[c].frames_since_seen = grace[c].len
        /\ grace[c].len = max_frames_without_face + 1 =>
               /\ grace[c].alerts = 1
               /\ c \notin DOMAIN last_authorized_person
               /\ face_tick.camera = c => face_tick.alerts = <<"hidden_face">>

\* the 11th consecutive tick without a face has just been taken
C9_Witness ==
    \E c \in Cameras :
        /\ grace[c].len = max_frames_without_face + 1
        /\ face_tick.camera = c
        /\ face_tick.person_count > 0
        /\ face_tick.n_authorized = 0 /\ face_tick.n_intruder = 0

\* C10: a tick on which face recognition ran and found at least one
\* intruder face calls send_intruder_alert exactly once, whether or not
\* authorized faces are in the frame or an authorization memory exists.
C10_OneAlertPerIntruderTick ==
    (face_tick.ran /\ face_tick.n_intruder > 0) => face_tick.alerts = <<"unknown">>

\* intruders seen next to an authorized face, with a memory in place
C10_Witness ==
    /\ face_tick.ran
    /\ face_tick.n_intruder > 0
    /\ face_tick.n_authorized > 0
    /\ face_tick.had_memory
    /\ Len(face_tick.alerts) = 1

\* C36: a tick with a person detected and no face resolved, on a camera
\* that holds no authorization memory, raises no intruder alert; and once
\* the grace period has expired and raised its one alert, the no-face
\* ticks that follow it raise no further alert and leave the camera
\* without memory.
C36_NoAlertWithoutMemory ==
    /\ (/\ face_tick.person_count > 0
        /\ face_tick.n_authorized = 0 /\ face_tick.n_intruder = 0
        /\ ~face_tick.had_memory) => face_tick.alerts = <<>>
    /\ \A c \in Cameras :
           grace[c].len > max_frames_without_face + 1 =>
               /\ grace[c].alerts = 1
               /\ c \notin DOMAIN last_authorized_person

\* a no-face tick has just run on a camera whose grace period had expired
C36_Witness ==
    \E c \in Cameras :
        /\ grace[c].len = max_frames_without_face + 2
        /\ face_tick.camera = c
        /\ face_tick.ran
        /\ face_tick.person_count > 0
        /\ ~face_tick.had_memory

-----------------------------------------------------------------------------
(* Properties of point_in_polygon *)

\* C16: on an axis-aligned rectangle (the unit square, the full-frame
\* zone) point_in_polygon answers True for every strictly interior integer
\* point, False for every strictly exterior one, and on the boundary
\* follows one convention: inside exactly when xmin < x <= xmax and
\* ymin < y <= ymax.
C16_RectangleConvention ==
    pip.called =>
        LET x == pip.point[1]
            y == pip.point[2]
            xmin == pip.polygon[1][1]
            ymin == pip.polygon[1][2]
            xmax == pip.polygon[3][1]
            ymax == pip.polygon[3][2]
        IN /\ (xmin < x /\ x < xmax /\ ymin < y /\ y < ymax) => pip.result
           /\ (x < xmin \/ x > xmax \/ y < ymin \/ y > ymax) => ~pip.result
           /\ pip.result <=> (xmin < x /\ x <= xmax /\ ymin < y /\ y <= ymax)

\* a corner of the full frame on its max-x and max-y edges is inside
C16_Witness ==
    /\ pip.called
    /\ pip.polygon = FullFrame
    /\ pip.point = <<1920, 1080>>
    /\ pip.result

-----------------------------------------------------------------------------
(* Properties of SuspiciousActivityAnalyzer *)

\* the activities of one type that the calls so far returned for a track
EmittedFor(type, t) ==
    SelectSeq(emitted, LAMBDA e : e.activity.activity_type = type
                                  /\ e.activity.track_id = t)

\* the rectangle convention of C16, stated on a zone's corners
InRectangle(point, points) ==
    /\ points[1][1] < point[1] /\ point[1] <= points[3][1]
    /\ points[1][2] < point[2] /\ point[2] <= points[3][2]

\* C11: on a camera whose only zone is a restricted zone listing
\* ZONE_INTRUSION, a track that is an intruder inside the zone on the first
\* call that analyses it (frame_count >= 10) gets exactly one
\* ZONE_INTRUSION (high) and exactly one UNAUTHORIZED_PERSON (high) from
\* that call, and no later call returns ZONE_INTRUSION for that track and
\* zone.
C11_IntrusionScenario ==
    \A t \in 1..MaxTrackIds :
        LET log == track_log[t]
            intrusions == EmittedFor("zone_intrusion", t)
            unauthorized == EmittedFor("unauthorized_person", t)
            At(es, n) == SelectSeq(es, LAMBDA e : e.call = n)
        IN (/\ log.first_analysed > 0
            /\ log.first_status = "intruder"
            /\ log.first_zone = "vault"
            /\ log.first_zones = 1) =>
               /\ Len(At(intrusions, log.first_analysed)) = 1
               /\ At(intrusions, log.first_analysed)[1].activity.threat_level = "high"
               /\ At(intrusions, log.first_analysed)[1].activity.zone_name = "vault"
               /\ Len(At(unauthorized, log.first_analysed)) = 1
               /\ At(unauthorized, log.first_analysed)[1].activity.threat_level = "high"
               /\ \A i \in 1..Len(intrusions) :
                      intrusions[i].activity.zone_name = "vault"
                          => intrusions[i].call = log.first_analysed

\* the intruder of the scenario is still in the zone on a later call
C11_Witness ==
    \E t \in 1..MaxTrackIds :
        /\ track_log[t].first_analysed = 1
        /\ track_log[t].first_status = "intruder"
        /\ track_log[t].first_zone = "vault"
        /\ track_log[t].first_zones = 1
        /\ analysis.n = 2
        /\ t \in DOMAIN analysis.tracks
        /\ analysis.tracks[t].authorization_status = "intruder"
        /\ analysis.tracks[t].center = <<50, 50>>
        /\ analysis.tracks[t].frame_count >= min_analysis_frames
        /\ Len(zones) = 1

\* C12: a call of analyze_frame returns ZONE_INTRUSION for a track only
\* if, on that call, the track's center is inside a restricted zone that
\* lists ZONE_INTRUSION and its authorization_status is not 'authorized';
\* the threat level is high exactly when the status is 'intruder' and
\* medium otherwise.
C12_IntrusionOnlyWhenDue ==
    \A i \in 1..Len(analysis.activities) :
        LET a == analysis.activities[i]
        IN a.activity_type = "zone_intrusion" =>
             /\ a.track_id \in DOMAIN analysis.tracks
             /\ LET track_state == analysis.tracks[a.track_id]
                IN /\ \E k \in 1..Len(zones) :
                          /\ zones[k].name = a.zone_name
                          /\ zones[k].zone_type = "restricted"
                          /\ "zone_intrusion" \in zones[k].activity_types
                          /\ InRectangle(track_state.center, zones[k].points)
                   /\ track_state.authorization_status # "authorized"
                   /\ a.threat_level =
                          (IF track_state.authorization_status = "intruder"
                           THEN "high" ELSE "medium")

\* one call rates an intruder's intrusion high and a pending track's medium
C12_Witness ==
    \E i, j \in 1..Len(analysis.activities) :
        /\ analysis.activities[i].activity_type = "zone_intrusion"
        /\ analysis.activities[i].threat_level = "high"
        /\ analysis.activities[j].activity_type = "zone_intrusion"
        /\ analysis.activities[j].threat_level = "medium"
        /\ analysis.tracks[analysis.activities[j].track_id].authorization_status = "pending"

\* C13: over all calls, UNAUTHORIZED_PERSON is returned at most once per
\* track id, and it is returned by the first call on which the track has
\* frame_count >= 10 and authorization_status 'intruder'.
C13_UnauthorizedOncePerTrack ==
    \A t \in 1..MaxTrackIds :
        LET unauthorized == EmittedFor("unauthorized_person", t)
        IN /\ Len(unauthorized) <= 1
           /\ track_log[t].first_intruder > 0 <=> Len(unauthorized) = 1
           /\ Len(unauthorized) = 1 =>
                  unauthorized[1].call = track_log[t].first_intruder

\* a track reported on the first call is an intruder again on the second
C13_Witness ==
    \E t \in 1..MaxTrackIds :
        /\ track_log[t].first_intruder = 1
        /\ analysis.n = 2
        /\ t \in DOMAIN analysis.tracks
        /\ analysis.tracks[t].authorization_status = "intruder"
        /\ analysis.tracks[t].frame_count >= min_analysis_frames
        /\ Len(EmittedFor("unauthorized_person", t)) = 1

\* the zones, by position in the order added, whose rectangle holds the point
containing_zones(point) ==
    {k \in 1..Len(zones) : InRectangle(point, zones[k].points)}

\* the activities of one type that the last call returned for a track
returned_for(type, t) ==
    SelectSeq(analysis.activities,
              LAMBDA a : a.activity_type = type /\ a.track_id = t)

\* what the last call returned, against the zones as they are
first_zone_decides ==
    \A t \in DOMAIN analysis.tracks :
        LET track_state == analysis.tracks[t]
            containing == containing_zones(track_state.center)
        IN (containing # {} /\ has_enough_history(track_state)) =>
             LET first == zones[CHOOSE k \in containing :
                                   \A j \in containing : k <= j]
                 intrusions == returned_for("zone_intrusion", t)
                 loiterings == returned_for("loitering", t)
             IN /\ intrusions # <<>> =>
                       /\ first.zone_type = "restricted"
                       /\ "zone_intrusion" \in first.activity_types
                       /\ \A i \in 1..Len(intrusions) :
                              intrusions[i].zone_name = first.name
                /\ loiterings # <<>> =>
                       /\ "loitering" \in first.activity_types
                       /\ \A i \in 1..Len(loiterings) :
                              loiterings[i].zone_name = first.name
                /\ (/\ Len(track_state.position_history) >= loitering_threshold * 2
                    /\ "loitering" \in first.activity_types) => loiterings # <<>>

\* C38: the zone-scoped rules look at the first-added zone that contains
\* the track's center and at no other: a call returns ZONE_INTRUSION for
\* a track only if that first zone is restricted and lists the rule, so a
\* restricted zone added after a non-restricted one over the same point
\* yields none; and a track that has stood still long enough is reported
\* as loitering exactly when the first zone lists loitering, under the
\* first zone's name.
C38_FirstContainingZoneOnly ==
    [][analysis'.n # analysis.n => first_zone_decides']_vars

\* an intruder has stood in the vault's rectangle with the monitored yard
\* added before the vault: loitering in the yard, no intrusion
C38_Witness ==
    /\ Len(zones) = 2
    /\ zones[1].name = "yard" /\ zones[2].name = "vault"
    /\ \E t \in DOMAIN analysis.tracks :
          /\ analysis.tracks[t].center = <<50, 50>>
          /\ analysis.tracks[t].authorization_status = "intruder"
          /\ returned_for("zone_intrusion", t) = <<>>
          /\ Len(returned_for("loitering", t)) = 1
          /\ returned_for("loitering", t)[1].zone_name = "yard"

\* C40: get_latest_result() returns the result produced last among those
\* queued when it is called, and None when none is queued.
C40_ReturnsNewestResult ==
    latest_call.returned = latest_call.newest

-----------------------------------------------------------------------------
TrackerInit ==
    /\ active_tracks = {}
    /\ track_states = EmptyMap
    /\ next_track_id = 1
    /\ clock = 0
    /\ confirmed_tracks = EmptyMap
    /\ created_ids = <<>>
    /\ call = [det_frames |-> 0, detections |-> <<>>, stale |-> {}, failed |-> {},
               matches |-> EmptyMap, before_create |-> EmptyMap,
               after_create |-> EmptyMap, create_log |-> <<>>]

AlertInit ==
    /\ last_alert_times = EmptyMap
    /\ alert_queue = <<>>
    /\ total_alerts = 0
    /\ alert_clock = 0
    /\ pc = [c \in Cameras |-> "idle"]
    /\ activity = [c \in Cameras |-> NoActivity]
    /\ stat_read = [c \in Cameras |-> 0]
    /\ enqueued = <<>>
    /\ alert_call = [camera |-> "none", activity |-> NoActivity,
                     first_for_camera |-> FALSE, enqueued_before |-> <<>>,
                     times_before |-> EmptyMap, queue_before |-> <<>>,
                     total_before |-> 0, outcome |-> "none"]
    /\ asked = {}
    /\ alert_steps = [calls |-> 0, ticks |-> 0]

FaceInit ==
    /\ last_authorized_person = EmptyMap
    /\ frame_counters = [c \in Cameras |-> 0]
    /\ face_tick = [camera |-> "none", ran |-> FALSE, person_count |-> 0,
                    n_authorized |-> 0, n_intruder |-> 0, had_memory |-> FALSE,
                    alerts |-> <<>>]
    /\ grace = [c \in Cameras |-> [len |-> -1, alerts |-> 0]]

PolygonInit ==
    pip = [point |-> <<0, 0>>, polygon |-> UnitSquare, called |-> FALSE,
           result |-> FALSE]

AnalyzerInit ==
    /\ zones = <<>>
    /\ zone_intrusions = EmptyMap
    /\ active_activities = EmptyMap
    /\ activity_history = <<>>
    /\ analysis = [n |-> 0, time |-> 0, tracks |-> EmptyMap, activities |-> <<>>]
    /\ emitted = <<>>
    /\ track_log = [t \in 1..MaxTrackIds |->
                       [offered |-> FALSE, first_analysed |-> 0,
                        first_status |-> "none", first_zone |-> "none",
                        first_zones |-> 0, first_intruder |-> 0]]

PipelineInit ==
    pipeline = [rate |-> 0, frames |-> 0, phase |-> 0, shifts |-> 0,
                shift_time |-> -1, loitered |-> FALSE, loitering |-> FALSE]

SupervisorInit ==
    /\ active_cameras = {}
    /\ latest_frames = {}
    /\ start_requests = <<>>
    /\ threads = <<>>
    /\ broken = {}

ConsumerInit ==
    /\ is_running = FALSE
    /\ alert_thread = [pc |-> "none", alert |-> NoAlert]
    /\ lifecycle = [phase |-> "new", queue_at_stop |-> <<>>, stage_at_stop |-> "none"]
    /\ dequeued = <<>>
    /\ dispatched = <<>>
    /\ disk_writes = <<>>

\* __init__ and _initialize_activity_detection: a tracker and an analyzer
\* for every camera the database lists at the start
DiscoveryInit ==
    /\ camera_urls = Cameras
    /\ person_trackers = [c \in Cameras |-> 0]
    /\ activity_analyzers = [c \in Cameras |-> new_analyzer(c, 0)]
    /\ discovery = [n |-> 0, new_cameras |-> Cameras, urls_before |-> Cameras]

FrameInit ==
    /\ zone_request = [data |-> NoRequest, status |-> 0]
    /\ frame_call = [n |-> 0, outcome |-> "none", detections |-> <<>>,
                     tracks |-> EmptyMap, activities |-> <<>>]

BagInit ==
    /\ stationary_objects = EmptyMap
    /\ bag_call = [n |-> 0, time |-> 0, detections |-> <<>>, activities |-> <<>>,
                   before |-> EmptyMap, sightings |-> EmptyMap]
    /\ last_sighting = EmptyMap

CountInit ==
    /\ alert_count = 0
    /\ counting = [c \in Cameras |-> [pc |-> "idle", loaded |-> 0, done |-> 0]]

LifeInit ==
    /\ alert_threads = <<>>
    /\ stopping = FALSE
    /\ life = [starts |-> 0, stops |-> 0, outside |-> {}, last_type |-> "none"]

SnapInit == assigned = {}

ResultInit ==
    /\ result_queue = <<>>
    /\ frames_processed = 0
    /\ process_pc = "idle"
    /\ latest_call = [returned |-> NoResult, newest |-> NoResult, queued |-> 0]

RestInit ==
    /\ PolygonInit /\ AnalyzerInit /\ PipelineInit /\ SupervisorInit
    /\ ConsumerInit /\ DiscoveryInit /\ FrameInit /\ BagInit /\ CountInit /\ LifeInit /\ SnapInit /\ ResultInit

Init == TrackerInit /\ AlertInit /\ FaceInit /\ RestInit

\* one camera's Track Store, tick by tick
NextTracker == TrackerUpdate
SpecTracker == Init /\ [][NextTracker]_vars

\* the AlertManager with one caller at a time
\* one person followed past the history window
NextFollow == FollowUpdate
SpecFollow == Init /\ [][NextFollow]_vars

\* the camera workers counting alerts
NextCount ==
    \E c \in Cameras : LoadAlertCount(c) \/ StoreAlertCount(c)
SpecCount == Init /\ [][NextCount]_vars

\* the AlertManager under any start() and stop() calls
NextLifecycle ==
    \/ StartCall \/ StopBegin \/ StopReturn \/ ProcessActivityAnytime
    \/ \E i \in 1..MaxStarts : ThreadStep(i)
SpecLifecycle == Init /\ [][NextLifecycle]_vars

\* the AlertManager as the application drives it: start() on a manager
\* without a thread
NextLifecycleOrdered ==
    \/ StartWhenIdle \/ StopBegin \/ StopReturn \/ ProcessActivityAnytime
    \/ \E i \in 1..MaxStarts : ThreadStep(i)
SpecLifecycleOrdered == Init /\ [][NextLifecycleOrdered]_vars

\* one person followed, the caller writing face verdicts into the snapshots
NextSnapshots == FollowUpdate \/ AssignFaceResult
SpecSnapshots == Init /\ [][NextSnapshots]_vars

\* the processing thread and the callers of get_latest_result
NextResults == ProcessFrameResult \/ MakeRoom \/ GetLatestResult
SpecResults == Init /\ [][NextResults]_vars

NextAlert == AlertClockTick \/ ProcessActivity
SpecAlert == Init /\ [][NextAlert]_vars

\* the AlertManager with the camera threads interleaved
NextAlertThreads ==
    \/ AlertClockTick
    \/ \E cam \in Cameras :
         \/ Begin(cam)
         \/ CheckCooldown(cam)
         \/ UpdateLastAlert(cam)
         \/ PutAlert(cam)
         \/ ReadTotal(cam)
         \/ WriteTotal(cam)
SpecAlertThreads == Init /\ [][NextAlertThreads]_vars

\* the AlertManager with its consumer thread
NextConsumer == SubmitActivity \/ AlertStart \/ AlertStop \/ ConsumerStep
SpecConsumer == Init /\ [][NextConsumer]_vars

\* the consumer is a thread of its own and is scheduled; callbacks return
ConsumerFairness == WF_vars(ConsumerStep)
SpecConsumerFair == SpecConsumer /\ ConsumerFairness

\* zones posted through the API and the frames analysed over them
NextZoneConfig ==
    \/ PostDetectionZone
    \/ AnalyzeFrameCall({<<>>, <<Knife>>}, TrackCenters, {1})

SpecZoneConfig == Init /\ [][NextZoneConfig]_vars

\* frames with weapons over the zones of the pool
NextWeapons ==
    \/ AddDetectionZone
    \/ AnalyzeFrameCall(WeaponFrames, WeaponTrackCenters, 1..MaxTrackIds)

SpecWeapons == Init /\ [][NextWeapons]_vars

\* frames with bags, one analyze_frame call after the other
NextBags == AnalyzeBagFrame

SpecBags == Init /\ [][NextBags]_vars

\* the discovery loop next to the camera workers and manual stops
NextDiscovery ==
    \/ \E new_cameras \in SUBSET Cameras : DiscoveryPass(new_cameras)
    \/ \E camera_name \in Cameras : StopCamera(camera_name)
    \/ \E w \in 1..MaxThreads : w <= Len(threads) /\ WorkerStep(w)
SpecDiscovery == Init /\ [][NextDiscovery]_vars

\* the face-recognition section of the camera workers' ticks
NextFace == FaceRecognitionTick
SpecFace == Init /\ [][NextFace]_vars

\* point_in_polygon on the points around rectangular zones
NextPolygon == PointInPolygon
SpecPolygon == Init /\ [][NextPolygon]_vars

\* one camera's analyzer, fed with track snapshots
NextAnalyzer == AddDetectionZone \/ AnalyzeFrame
SpecAnalyzer == Init /\ [][NextAnalyzer]_vars

\* overlapping zones under tracks that stand still
NextOverlap == AddDetectionZone \/ AnalyzeStandingTrack
SpecOverlap == Init /\ [][NextOverlap]_vars

\* one camera's frames through tracker and analyzer
NextPipeline == AddDefaultZones \/ ProcessFrame
SpecPipeline == Init /\ [][NextPipeline]_vars

\* the camera workers and the requests that start and stop them
NextSupervisor ==
    \/ \E camera_name \in Cameras :
          BeginStart(camera_name) \/ StopCamera(camera_name) \/ CaptureBreaks(camera_name)
    \/ \E r \in 1..MaxStartRequests : r <= Len(start_requests) /\ RequestStep(r)
    \/ \E w \in 1..MaxThreads :
          w <= Len(threads) /\ (WorkerStep(w) \/ WorkerRaises(w))
SpecSupervisor == Init /\ [][NextSupervisor]_vars

\* threads are scheduled: a thread that can take a step takes one, and so
\* does a request that has arrived; requests arrive, cameras break and
\* exceptions are raised whenever they do
SupervisorFairness ==
    /\ \A w \in 1..MaxThreads : WF_vars(w <= Len(threads) /\ WorkerStep(w))
    /\ \A r \in 1..MaxStartRequests :
          WF_vars(r <= Len(start_requests) /\ RequestStep(r))
SpecSupervisorFair == SpecSupervisor /\ SupervisorFairness

Next == NextTracker \/ NextAlert \/ NextAlertThreads \/ NextFace \/ NextPolygon \/ NextAnalyzer \/ NextPipeline \/ NextSupervisor \/ NextConsumer \/ NextDiscovery \/ NextZoneConfig \/ NextWeapons \/ NextBags \/ NextFollow \/ NextCount \/ NextLifecycle \/ NextLifecycleOrdered \/ NextSnapshots \/ NextOverlap \/ NextResults
Spec == Init /\ [][Next]_vars

====
